---- MODULE Spec2Model ----
(***************************************************************************)
(* A model of mmengine's FlexibleRunner (runner/_flexible_runner.py): its  *)
(* constructor, the hook queue (register_hook, register_default_hooks,     *)
(* call_hook), the lazily built loops and load_or_resume / resume /        *)
(* save_checkpoint.                                                        *)
(*                                                                         *)
(* Python values are encoded as strings: None is "None"; a priority is a   *)
(* token, either the name of a Priority level ("NORMAL") or an integer     *)
(* written "i50".  A hook object is its index in objs, so that two         *)
(* references to one object are one index (priority is a field of the      *)
(* object, not of the queue entry).                                        *)
(***************************************************************************)
EXTENDS Integers, Sequences, FiniteSets, TLC

VARIABLES
    pc,           \* "new": before __init__; "ready": constructed; "failed": __init__ raised
    args,         \* the arguments __init__ was called with
    err,          \* the error raised by the last operation, NoErr when it returned
    events,       \* side effects of construction, in the order they happened
    _hooks,       \* self._hooks: hook objects in queue order
    objs,         \* the hook objects built so far: [type, priority]
    reg_log,      \* hook objects in the order register_hook was called on them
    called,       \* the hooks whose callback the last call_hook invoked, in order
    last_call,    \* the last call_hook: stage name, the hook whose callback raised, what it raised
    op,           \* the name of the last operation executed
    _train_loop,  \* self._train_loop: None, a config, or a built loop
    _val_loop,    \* self._val_loop
    _test_loop,   \* self._test_loop
    loops_built,  \* how many loop objects the runner has built
    ret,          \* what the last property access returned
    regs,         \* how many register_hook calls were made on the constructed runner
    reprioritized, \* a register_hook call gave a queued hook object another priority value
    _has_loaded,  \* self._has_loaded
    _epoch,       \* train_loop._epoch
    _iter,        \* train_loop._iter
    message_hub,  \* the state of self.message_hub: the iteration it last recorded
    _randomness_cfg, \* self._randomness_cfg['seed']
    disk,         \* the checkpoint files of the work directory, by file name
    resumed,      \* the file name the last operation passed to resume, or None
    last_read,    \* the file the last operation read a checkpoint from, or None
    logs,         \* the messages the last operation logged
    returned,     \* the checkpoint load_checkpoint returned to the last operation
    steps,        \* the steps the last train(), val() or test() call performed, in order
    prepares,     \* how many times strategy.prepare was invoked on the runner's strategy
    started,      \* a train loop has started running with the runner's strategy
    now,          \* the wall clock, in ticks
    rank_pc,      \* where each rank is in setup_env
    clock_read,   \* time.time() as each rank read it
    timestamp,    \* each rank's local tensor `timestamp`
    wire,         \* what the broadcast carries once rank 0 has entered it
    _timestamp,   \* strategy._timestamp on each rank
    build_in,     \* the arguments of the last build_param_scheduler call
    param_schedulers, \* what the last build_param_scheduler call returned or raised
    strategy_state, \* the strategy's model weights, optimizer wrapper and parameter schedulers
    saved_state,  \* what the last state_dict() call returned, with the flags it was given
    pre_load,     \* the strategy's components when the last load began
    strat_err,    \* the error the last strategy operation raised
    strat_op,     \* the name of the last strategy operation
    lazy,         \* the LazyObject or LazyAttr the configuration holds, or None
    lazy_arg,     \* the lazy value the last lazy operation was applied to
    lazy_out,     \* what the last lazy operation returned or raised
    lazy_op,      \* the name of the last lazy operation
    import_calls, \* how many importlib.import_module calls the last lazy operation made
    sys_modules,  \* the modules imported so far
    lr_run,       \* the training run with parameter schedulers under way
    train_lr      \* the learning-rate logs of the finished training runs

hookVars == <<_hooks, objs, reg_log, called, last_call, reprioritized>>
loopVars == <<_train_loop, _val_loop, _test_loop, loops_built, ret>>
ckptVars == <<_has_loaded, _epoch, _iter, message_hub, _randomness_cfg, disk,
              resumed, last_read, logs, returned>>
runVars == <<steps, prepares, started>>
distVars == <<now, rank_pc, clock_read, timestamp, wire, _timestamp>>
schedVars == <<build_in, param_schedulers>>
stateVars == <<strategy_state, saved_state, pre_load, strat_err, strat_op>>
stratVars == <<schedVars, stateVars>>
lazyVars == <<lazy, lazy_arg, lazy_out, lazy_op, import_calls, sys_modules>>
lrVars == <<lr_run, train_lr>>
cfgVars == <<lazyVars, lrVars>>
extVars == <<runVars, distVars, stratVars, cfgVars>>
vars == <<pc, args, err, events, op, regs, hookVars, loopVars, ckptVars, extVars>>

None == "None"

\* Bounds of the model.
MaxRegs == 2
MaxUser == 2
MaxCustom == 1
MaxBuilds == 4
MaxIter == 1
MaxEpoch == 1
MaxLaunches == 2
WorldSize == 3
MaxClock == 5
MaxSchedulers == 2
MaxSteps == 2
MaxChain == 2
MaxTrainEpochs == 3
MaxRuns == 2

\* The learning rate of the optimizer of the test configuration, in
\* thousandths, and the length of its dataloader.
init_lr == 100
dataloader_len == 4

NoErr == [kind |-> None, hook |-> 0, at |-> ""]
Error(kind, at) == [kind |-> kind, hook |-> 0, at |-> at]
NoCall == [fn |-> None, failing |-> 0, raised |-> None]

\* The largest element of a set of positive integers, 0 for the empty set.
SetMax(S) == IF S = {} THEN 0 ELSE CHOOSE x \in S : \A y \in S : y <= x

(***************************************************************************)
(* Priorities.                                                             *)
(***************************************************************************)

\* Priority levels and their values, as the docstring of
\* register_default_hooks lists them; "iN" is the integer N.
PriorityValue ==
    [VERY_HIGH |-> 10, NORMAL |-> 50, BELOW_NORMAL |-> 60, LOW |-> 70,
     VERY_LOW |-> 90, i50 |-> 50, i20 |-> 20, i65 |-> 65]

\* get_priority: a level name or an integer to its integer value.
get_priority(p) == PriorityValue[p]

\* The class attribute `priority` of each hook class.
ClassPriority(type) ==
    CASE type = "RuntimeInfoHook"     -> "VERY_HIGH"
      [] type = "IterTimerHook"       -> "NORMAL"
      [] type = "DistSamplerSeedHook" -> "NORMAL"
      [] type = "LoggerHook"          -> "BELOW_NORMAL"
      [] type = "ParamSchedulerHook"  -> "LOW"
      [] type = "CheckpointHook"      -> "VERY_LOW"
      [] OTHER                        -> "NORMAL"

\* hasattr(hook, fn_name): every Hook defines the lifecycle stages; only a
\* custom hook class defines an additional method of its own.
HasFn(type, fn) ==
    \/ fn \in {"before_run", "after_run", "before_save_checkpoint",
               "after_load_checkpoint"}
    \/ (fn = "on_custom" /\ type = "CustomHook")

(***************************************************************************)
(* register_hook.  A hook argument is [kind, type, priority, id]:          *)
(*   kind "dict": a config {type: ..., priority: ...} ("None": key absent) *)
(*   kind "obj":  the Hook instance objs[id]                               *)
(*   kind "None": neither a Hook nor a dict                                *)
(***************************************************************************)
HookDict(type, p) == [kind |-> "dict", type |-> type, priority |-> p, id |-> 0]
HookObj(i) == [kind |-> "obj", type |-> "", priority |-> None, id |-> i]
HookNone == [kind |-> "None", type |-> "", priority |-> None, id |-> 0]

\* A scan that stops only at a strictly smaller priority value.
InsertPosStrict(hs, ob, p) ==
    SetMax({i \in 1..Len(hs) :
               get_priority(p) > get_priority(ob[hs[i]].priority)})

\* Scanning from the tail, the first hook whose priority value is not above
\* the new one's; 0 when there is none.
InsertPos(hs, ob, p) ==
    SetMax({i \in 1..Len(hs) :
               get_priority(p) >= get_priority(ob[hs[i]].priority)})

\* An insertion that takes the place of the hook it should follow.
InsertOver(hs, i, h) ==
    IF i = 0 THEN <<h>> \o hs
    ELSE SubSeq(hs, 1, i - 1) \o <<h>> \o SubSeq(hs, i + 1, Len(hs))

\* self._hooks.insert(i, h) with i counted from 0: h follows hs[1..i].
InsertAt(hs, i, h) == SubSeq(hs, 1, i) \o <<h>> \o SubSeq(hs, i + 1, Len(hs))

\* register_hook(hook, priority) on the queue hs and the objects ob:
\* the new [hooks, objs, log, err].
register_hook(hs, ob, log, hook, priority) ==
    IF hook.kind \notin {"dict", "obj"}
    THEN [hooks |-> hs, objs |-> ob, log |-> log,
          err |-> Error("TypeError", "register_hook")]
    ELSE
    LET _priority == IF hook.kind = "dict" THEN hook.priority ELSE None
        built == IF hook.kind = "dict"
                 THEN Append(ob, [type |-> hook.type,
                                  priority |-> ClassPriority(hook.type)])
                 ELSE ob
        hook_obj == IF hook.kind = "dict" THEN Len(built) ELSE hook.id
        p == IF priority # None THEN priority
             ELSE IF _priority # None THEN _priority
             ELSE built[hook_obj].priority
        ob2 == [built EXCEPT ![hook_obj].priority = p]
    IN  [hooks |-> InsertAt(hs, InsertPos(hs, ob2, p), hook_obj),
         objs |-> ob2, log |-> Append(log, hook_obj), err |-> NoErr]

(***************************************************************************)
(* register_default_hooks, register_custom_hooks, register_hooks.          *)
(* A mapping (a Python dict, which keeps insertion order) is a sequence of *)
(* [name, hook] with distinct names.                                       *)
(***************************************************************************)
Item(name, hook) == [name |-> name, hook |-> hook]

\* The built-in default_hooks dict.
BuiltinDefaults ==
    << Item("runtime_info", HookDict("RuntimeInfoHook", None)),
       Item("timer", HookDict("IterTimerHook", None)),
       Item("sampler_seed", HookDict("DistSamplerSeedHook", None)),
       Item("logger", HookDict("LoggerHook", None)),
       Item("param_scheduler", HookDict("ParamSchedulerHook", None)),
       Item("checkpoint", HookDict("CheckpointHook", None)) >>

Names(d) == {d[i].name : i \in 1..Len(d)}
IndexOf(d, name) == CHOOSE i \in 1..Len(d) : d[i].name = name

\* d.pop(name)
DictPop(d, name) == SelectSeq(d, LAMBDA it : it.name # name)
\* d[name] = hook: an existing key keeps its place, a new key goes last.
DictSet(d, name, hook) ==
    IF name \in Names(d)
    THEN [d EXCEPT ![IndexOf(d, name)] = Item(name, hook)]
    ELSE Append(d, Item(name, hook))

\* A merge in which a None entry leaves the built-in default in place.
RECURSIVE MergeKeepsNone(_, _)
MergeKeepsNone(d, user) ==
    IF user = <<>> THEN [d |-> d, err |-> NoErr]
    ELSE LET name == Head(user).name
             hook == Head(user).hook
         IN  IF hook.kind = None
             THEN MergeKeepsNone(d, Tail(user))
             ELSE MergeKeepsNone(DictSet(d, name, hook), Tail(user))

\* The loop merging the user's mapping into default_hooks; the result is
\* [d, err], err an AssertionError when a name that is no built-in default
\* is mapped to None.
RECURSIVE MergeDefaults(_, _)
MergeDefaults(d, user) ==
    IF user = <<>> THEN [d |-> d, err |-> NoErr]
    ELSE LET name == Head(user).name
             hook == Head(user).hook
         IN  IF name \in Names(d) /\ hook.kind = None
             THEN MergeDefaults(DictPop(d, name), Tail(user))
             ELSE IF hook.kind = None
             THEN [d |-> d, err |-> Error("AssertionError", "register_default_hooks")]
             ELSE MergeDefaults(DictSet(d, name, hook), Tail(user))

\* `for hook in hooks: self.register_hook(hook)`, from the state st =
\* [hooks, objs, log, err]; the loop ends at the first error.
RECURSIVE RegisterAll(_, _)
RegisterAll(st, hooks) ==
    IF hooks = <<>> \/ st.err # NoErr THEN st
    ELSE RegisterAll(register_hook(st.hooks, st.objs, st.log, Head(hooks), None),
                     Tail(hooks))

Values(d) == [i \in 1..Len(d) |-> d[i].hook]

\* An optional argument is [given, items]: given = FALSE is None.
NotGiven == [given |-> FALSE, items |-> <<>>]
Given(items) == [given |-> TRUE, items |-> items]

register_default_hooks(st, hooks) ==
    LET m == MergeDefaults(BuiltinDefaults, IF hooks.given THEN hooks.items ELSE <<>>)
    IN  IF m.err # NoErr THEN [st EXCEPT !.err = m.err]
        ELSE RegisterAll(st, Values(m.d))

register_custom_hooks(st, hooks) == RegisterAll(st, hooks)

register_hooks(st, default_hooks, custom_hooks) ==
    LET d == register_default_hooks(st, default_hooks)
    IN  IF d.err # NoErr \/ ~custom_hooks.given THEN d
        ELSE register_custom_hooks(d, custom_hooks.items)

(***************************************************************************)
(* call_hook(fn_name).  What the callbacks do is the environment's choice: *)
(* the k-th hook having the method raises an error of kind `raised`        *)
(* (k = 0: none raises).                                                   *)
(***************************************************************************)
\* The kinds of error a callback raises.
Raised == {"TypeError", "ValueError"}

Candidates(hs, ob, fn) == SelectSeq(hs, LAMBDA h : HasFn(ob[h].type, fn))

\* A call_hook that catches every error of a callback and goes on.
call_hook_swallow(hs, ob, fn, k, raised) ==
    [called |-> Candidates(hs, ob, fn), err |-> NoErr]

call_hook(hs, ob, fn, k, raised) ==
    LET c == Candidates(hs, ob, fn)
    IN  IF k = 0 THEN [called |-> c, err |-> NoErr]
        ELSE [called |-> SubSeq(c, 1, k),
              err |-> IF raised = "TypeError"
                      \* raise TypeError(f'{e} in {hook}') from None
                      THEN [kind |-> "TypeError", hook |-> c[k], at |-> "call_hook"]
                      \* any other error leaves call_hook as the callback raised it
                      ELSE [kind |-> raised, hook |-> 0, at |-> "callback"]]

(***************************************************************************)
(* Loops.  A loop slot holds None, a config dict, or a BaseLoop object     *)
(* (id 0: an instance the caller passed in; id n > 0: the n-th loop the    *)
(* runner built).                                                          *)
(***************************************************************************)
LoopNone == [tag |-> None, id |-> 0]
LoopCfg == [tag |-> "cfg", id |-> 0]
Loop(n) == [tag |-> "loop", id |-> n]
LoopSlot(arg) == IF arg = None THEN LoopNone ELSE IF arg = "cfg" THEN LoopCfg ELSE Loop(0)

\* build_train_loop / build_val_loop / build_test_loop: a BaseLoop is
\* returned as it is, a config builds a new loop.
build_loop(loop, nbuilt) ==
    IF loop.tag = "loop" THEN [loop |-> loop, built |-> nbuilt]
    ELSE [loop |-> Loop(nbuilt + 1), built |-> nbuilt + 1]

\* A property that builds from the config whenever it is read.
loop_property_rebuild(slot, nbuilt) ==
    IF slot.tag = None THEN [slot |-> slot, built |-> nbuilt, ret |-> slot]
    ELSE [slot |-> Loop(nbuilt + 1), built |-> nbuilt + 1, ret |-> Loop(nbuilt + 1)]

\* The properties train_loop, val_loop, test_loop: [slot, built, ret].
loop_property(slot, nbuilt) ==
    IF slot.tag = "loop" \/ slot.tag = None
    THEN [slot |-> slot, built |-> nbuilt, ret |-> slot]
    ELSE LET b == build_loop(slot, nbuilt)
         IN  [slot |-> b.loop, built |-> b.built, ret |-> b.loop]

(***************************************************************************)
(* __init__.                                                               *)
(***************************************************************************)

\* The attributes a FlexibleRunner has: those __init__ assigns and the
\* properties of the class.  Reading any other name raises AttributeError.
RunnerAttrs ==
    {"model", "_work_dir", "cfg", "_train_dataloader", "_train_loop",
     "optim_wrapper", "_auto_scale_lr", "param_schedulers", "_val_dataloader",
     "_val_loop", "_val_evaluator", "_test_dataloader", "_test_loop",
     "_test_evaluator", "_launcher", "_distributed", "_compile",
     "_randomness_cfg", "strategy", "_experiment_name", "_log_dir",
     "default_scope", "log_processor", "logger", "message_hub", "visualizer",
     "_load_from", "_resume", "_has_loaded", "_hooks",
     "experiment_name", "model_name", "work_dir", "log_dir", "max_epochs",
     "max_iters", "epoch", "iter", "launcher", "distributed", "rank",
     "world_size", "deterministic", "seed", "timestamp", "hooks",
     "train_loop", "val_loop", "test_loop", "train_dataloader",
     "val_dataloader", "test_dataloader", "val_evaluator", "test_evaluator",
     "val_interval", "val_begin"}

HasAttr(name) == name \in RunnerAttrs

\* A check written with any() where the code has all().
TriadOkAny(a, b, c) ==
    \/ (a = None \/ b = None \/ c = None)
    \/ (a # None /\ b # None /\ c # None)

\* all(item is None ...) or all(item is not None ...)
TriadOk(a, b, c) ==
    \/ (a = None /\ b = None /\ c = None)
    \/ (a # None /\ b # None /\ c # None)

\* _check_scheduler_cfg: a value that is no scheduler, dict or sequence is a
\* TypeError; a list of dicts one of which lacks 'type' fails an assert.
_check_scheduler_cfg(param_scheduler) ==
    CASE param_scheduler = "bad_type" -> Error("TypeError", "_check_scheduler_cfg")
      [] param_scheduler = "no_type"  -> Error("AssertionError", "_check_scheduler_cfg")
      [] OTHER -> NoErr

NoHooks == [hooks |-> <<>>, objs |-> <<>>, log |-> <<>>, err |-> NoErr]

Failed(ev, e) ==
    [ok |-> FALSE, err |-> e, events |-> ev, h |-> NoHooks,
     train |-> LoopNone, val |-> LoopNone, test |-> LoopNone]

\* A constructor that builds the strategy before it validates.
StrategyBeforeChecks == <<"mkdir_work_dir", "build_strategy", "setup_env">>

\* What __init__ has done when it reaches the triad checks:
\* mmengine.mkdir_or_exist(self._work_dir).
BeforeChecks == <<"mkdir_work_dir">>

EventsToStrategy == BeforeChecks \o <<"build_strategy", "setup_env">>
\* A constructor that builds the visualizer before the message hub.
VisualizerBeforeHub ==
    EventsToStrategy \o <<"mkdir_log_dir", "default_scope", "build_log_processor",
                          "build_logger", "build_visualizer", "build_message_hub">>

EventsToVisualizer ==
    EventsToStrategy \o <<"mkdir_log_dir", "default_scope", "build_log_processor",
                          "build_logger", "build_message_hub", "build_visualizer">>

\* The constructor on the arguments a: [ok, err, events, h, train, val, test].
__init__(a) ==
    LET e1 == BeforeChecks
    IN
    IF ~TriadOk(a.train_dataloader, a.train_cfg, a.optim_wrapper)
    THEN Failed(e1, Error("ValueError", "train_triad"))
    ELSE IF a.param_scheduler # None /\ a.optim_wrapper = None
    THEN Failed(e1, Error("ValueError", "param_scheduler"))
    ELSE IF _check_scheduler_cfg(a.param_scheduler) # NoErr
    THEN Failed(e1, _check_scheduler_cfg(a.param_scheduler))
    ELSE IF ~TriadOk(a.val_dataloader, a.val_cfg, a.val_evaluator)
    THEN Failed(e1, Error("ValueError", "val_triad"))
    ELSE IF ~TriadOk(a.test_dataloader, a.test_cfg, a.test_evaluator)
    THEN Failed(e1, Error("ValueError", "test_triad"))
    ELSE IF a.compile \notin {"bool", "dict"}
    THEN Failed(e1, Error("TypeError", "compile"))
    ELSE IF (a.experiment_name # None \/ a.cfg_filename # None) /\ ~HasAttr("_timestamp")
    \* f'{experiment_name}_{self._timestamp}'
    THEN Failed(EventsToStrategy, Error("AttributeError", "_timestamp"))
    ELSE
    LET h == register_hooks(NoHooks, a.default_hooks, a.custom_hooks)
        ev == EventsToVisualizer \o <<"register_hooks">>
    IN  IF h.err # NoErr
        THEN [Failed(ev, h.err) EXCEPT !.h = h]
        ELSE [ok |-> TRUE, err |-> NoErr, events |-> ev \o <<"dump_config">>,
              h |-> h, train |-> LoopSlot(a.train_cfg),
              val |-> LoopSlot(a.val_cfg), test |-> LoopSlot(a.test_cfg)]

(***************************************************************************)
(* setup_env on the ranks of a distributed run.  Every rank is a process   *)
(* of its own: it reads its clock, enters the broadcast and formats what   *)
(* the broadcast left in its tensor.  The clock counts ticks.              *)
(***************************************************************************)
Ranks == 0..(WorldSize - 1)
NoValue == -1

\* '%Y%m%d_%H%M%S' has a resolution of one second.
TicksPerSecond == 2

\* time.strftime('%Y%m%d_%H%M%S', time.localtime(t))
strftime(t) == t \div TicksPerSecond

\* A setup_env that formats the time its own rank read.
timestamp_of_own_clock(own, tensor) == strftime(own)

\* self._timestamp: the tensor is formatted after the broadcast.
setup_env_timestamp(own, tensor) == strftime(tensor)

\* broadcast(data, src=0): the tensor of rank 0 is left as it is, the
\* tensor of every other rank receives what rank 0 sent.
broadcast(rank, tensor, sent) == IF rank = 0 THEN tensor ELSE sent

(***************************************************************************)
(* Building parameter schedulers (BaseStrategy).  A scheduler is           *)
(* [kind, by_epoch, end]: kind "cfg" is a config dict, "obj" a built       *)
(* _ParamScheduler, "bad" anything else; by_epoch is "None" when the key   *)
(* is absent; end is NoValue when the key is absent.  default_args is      *)
(* [max_epochs, max_iters], NoValue for a key that is absent.              *)
(***************************************************************************)
SchedulerCfg(by_epoch, end) == [kind |-> "cfg", by_epoch |-> by_epoch, end |-> end]
SchedulerObj == [kind |-> "obj", by_epoch |-> "True", end |-> 0]
SchedulerBad == [kind |-> "bad", by_epoch |-> None, end |-> NoValue]

\* default_args after max_epochs and max_iters were popped from it.
Popped == [max_epochs |-> NoValue, max_iters |-> NoValue]

\* A default end taken from the maximum of the other mode.
default_end_swapped(scheduler, max_epochs, max_iters) ==
    IF scheduler.by_epoch \in {None, "True"} THEN max_iters ELSE max_epochs

\* `Set default end`: _scheduler.get('by_epoch', True) chooses the maximum.
default_end(scheduler, max_epochs, max_iters) ==
    IF scheduler.by_epoch \in {None, "True"} THEN max_epochs ELSE max_iters

\* A build in which the maximum replaces an `end` that was set.
build_one_max_wins(scheduler, max_epochs, max_iters) ==
    IF scheduler.kind = "obj" THEN [err |-> NoErr, out |-> <<scheduler>>]
    ELSE IF scheduler.kind # "cfg"
    THEN [err |-> Error("TypeError", "scheduler"), out |-> <<>>]
    ELSE IF default_end(scheduler, max_epochs, max_iters) = NoValue
    THEN [err |-> Error("ValueError",
                        IF scheduler.by_epoch \in {None, "True"}
                        THEN "max_epochs" ELSE "max_iters"),
          out |-> <<>>]
    ELSE [err |-> NoErr,
          out |-> << [kind |-> "obj", by_epoch |-> scheduler.by_epoch,
                      end |-> default_end(scheduler, max_epochs, max_iters)] >>]

\* The body of the loop of _build_param_scheduler: [err, out].
build_one(scheduler, max_epochs, max_iters) ==
    IF scheduler.kind = "obj" THEN [err |-> NoErr, out |-> <<scheduler>>]
    ELSE IF scheduler.kind # "cfg"
    THEN [err |-> Error("TypeError", "scheduler"), out |-> <<>>]
    ELSE IF default_end(scheduler, max_epochs, max_iters) = NoValue
    THEN [err |-> Error("ValueError",
                        IF scheduler.by_epoch \in {None, "True"}
                        THEN "max_epochs" ELSE "max_iters"),
          out |-> <<>>]
    ELSE [err |-> NoErr,
          out |-> << [kind |-> "obj", by_epoch |-> scheduler.by_epoch,
                      \* _scheduler.setdefault('end', default_end)
                      end |-> IF scheduler.end = NoValue
                              THEN default_end(scheduler, max_epochs, max_iters)
                              ELSE scheduler.end] >>]

RECURSIVE build_each(_, _, _)
build_each(schedulers, max_epochs, max_iters) ==
    IF schedulers = <<>> THEN [err |-> NoErr, out |-> <<>>]
    ELSE LET b == build_one(Head(schedulers), max_epochs, max_iters)
         IN  IF b.err # NoErr THEN b
             ELSE LET rest == build_each(Tail(schedulers), max_epochs, max_iters)
                  IN  [err |-> rest.err, out |-> b.out \o rest.out]

\* _build_param_scheduler(scheduler, optim_wrapper, default_args):
\* [err, out, default_args], default_args as the call leaves the caller's
\* dict: max_epochs and max_iters are popped from it.
_build_param_scheduler(scheduler, default_args) ==
    LET b == build_each(scheduler, default_args.max_epochs, default_args.max_iters)
    IN  [err |-> b.err, out |-> b.out, default_args |-> Popped]

\* The optimizer wrapper: an OptimWrapper, or an OptimWrapperDict with its
\* names in order.
OptimWrapper == [is_dict |-> FALSE, keys |-> <<>>]
OptimWrapperDict(names) == [is_dict |-> TRUE, keys |-> names]

\* The scheduler argument: a list of schedulers, or a dict without 'type'
\* whose items are lists of schedulers by optimizer name.
SchedulerList(l) == [is_mapping |-> FALSE, seq_of |-> l, by_name |-> <<>>]
SchedulerMapping(items) == [is_mapping |-> TRUE, seq_of |-> <<>>, by_name |-> items]

HasKey(items, name) == \E i \in 1..Len(items) : items[i].key = name
Lookup(items, name) ==
    items[CHOOSE i \in 1..Len(items) : items[i].key = name].value

\* The loop of build_param_scheduler over self.optim_wrapper.by_name().
RECURSIVE build_for_each(_, _, _)
build_for_each(names, scheduler, default_args) ==
    IF names = <<>> THEN [err |-> NoErr, out |-> <<>>]
    ELSE IF scheduler.is_mapping /\ ~HasKey(scheduler.by_name, Head(names))
    \* scheduler[name]
    THEN [err |-> Error("KeyError", Head(names)), out |-> <<>>]
    ELSE LET b == _build_param_scheduler(
                      IF scheduler.is_mapping
                      THEN Lookup(scheduler.by_name, Head(names))
                      ELSE scheduler.seq_of,
                      default_args)
         IN  IF b.err # NoErr THEN [err |-> b.err, out |-> <<>>]
             ELSE LET rest == build_for_each(Tail(names), scheduler, b.default_args)
                  IN  [err |-> rest.err,
                       out |-> IF rest.err # NoErr THEN <<>>
                               ELSE <<[key |-> Head(names), value |-> b.out]>>
                                    \o rest.out]

\* build_param_scheduler(scheduler, default_args): [err, out]; out has one
\* item per optimizer, a single optimizer having the name None.
build_param_scheduler(optim_wrapper, scheduler, default_args) ==
    IF ~optim_wrapper.is_dict
    THEN LET b == _build_param_scheduler(scheduler.seq_of, default_args)
         IN  [err |-> b.err,
              out |-> IF b.err # NoErr THEN <<>>
                      ELSE <<[key |-> None, value |-> b.out]>>]
    ELSE build_for_each(optim_wrapper.keys, scheduler, default_args)

NoBuild == [optim_wrapper |-> OptimWrapper, scheduler |-> SchedulerList(<<>>),
            default_args |-> Popped]
NotBuilt == [err |-> NoErr, out |-> <<>>]

(***************************************************************************)
(* Training with parameter schedulers.  ConstantLR, ParamSchedulerHook,    *)
(* LoggerHook and the training loops are not among the source files; they  *)
(* are modelled after the end-to-end scenario of the specification and     *)
(* the values test_with_runner expects.  A learning rate is an integer     *)
(* number of thousandths, a factor a fraction [num, den].                  *)
(***************************************************************************)
Factor(n, d) == [num |-> n, den |-> d]

\* A scheduler config of the test: dict(type='ConstantLR', factor=...,
\* begin=..., by_epoch=...), by_epoch None when the key is absent.
ConstantLRCfg(f, b, e) == [factor |-> f, begin |-> b, by_epoch |-> e]

\* ConstantLR(optimizer, factor, begin, end, by_epoch) before the step its
\* construction takes.
ConstantLR(built, c) ==
    [by_epoch |-> built.by_epoch # "False", factor |-> c.factor,
     begin |-> c.begin, end |-> built.end,
     total_iters |-> built.end - c.begin - 1,
     _global_step |-> 0, last_step |-> -1]

\* ConstantLR._get_value: the rate is multiplied by the factor at the first
\* step of the window and divided by it at the last one.
_get_value(s, cur) ==
    IF s.last_step = 0 THEN (cur * s.factor.num) \div s.factor.den
    ELSE IF s.last_step = s.total_iters THEN (cur * s.factor.den) \div s.factor.num
    ELSE cur

\* scheduler.step(): the rate changes only inside [begin, end).
scheduler_step(s, cur) ==
    LET inside == s.begin <= s._global_step /\ s._global_step < s.end
        t == [s EXCEPT !.last_step = IF inside THEN @ + 1 ELSE @]
    IN  [sched |-> [t EXCEPT !._global_step = @ + 1],
         lr |-> IF inside THEN _get_value(t, cur) ELSE cur]

\* The schedulers are constructed in list order, each stepping once.
RECURSIVE construct_each(_, _, _)
construct_each(built, cs, cur) ==
    IF built = <<>> THEN [schedulers |-> <<>>, lr |-> cur]
    ELSE LET one == scheduler_step(ConstantLR(Head(built), Head(cs)), cur)
             rest == construct_each(Tail(built), Tail(cs), one.lr)
         IN  [schedulers |-> <<one.sched>> \o rest.schedulers, lr |-> rest.lr]

\* ParamSchedulerHook._step: the schedulers of one mode step in list order.
RECURSIVE step_each(_, _, _)
step_each(ss, cur, epoch_mode) ==
    IF ss = <<>> THEN [schedulers |-> <<>>, lr |-> cur]
    ELSE LET one == IF Head(ss).by_epoch = epoch_mode
                    THEN scheduler_step(Head(ss), cur)
                    ELSE [sched |-> Head(ss), lr |-> cur]
             rest == step_each(Tail(ss), one.lr, epoch_mode)
         IN  [schedulers |-> <<one.sched>> \o rest.schedulers, lr |-> rest.lr]

\* train_cfg: dict(by_epoch=True, max_epochs=n) over a dataloader of
\* dataloader_len batches, or dict(by_epoch=False, max_iters=n).
EpochBased(n) == [by_epoch |-> TRUE, max_epochs |-> n, max_iters |-> n * dataloader_len]
IterBased(n) == [by_epoch |-> FALSE, max_epochs |-> 1, max_iters |-> n]

NoRun == [phase |-> "idle", train_cfg |-> EpochBased(0), param_scheduler |-> <<>>,
          schedulers |-> <<>>, lr |-> init_lr, log |-> <<>>, _iter |-> 0]

\* One training iteration: LoggerHook.after_train_iter records the rate,
\* then ParamSchedulerHook.after_train_iter steps the by-iteration
\* schedulers, and at the end of an epoch ParamSchedulerHook.
\* after_train_epoch steps the by-epoch ones.
train_iter(run) ==
    LET it == step_each(run.schedulers, run.lr, FALSE)
        ends_epoch == IF run.train_cfg.by_epoch
                      THEN (run._iter + 1) % dataloader_len = 0
                      ELSE run._iter + 1 = run.train_cfg.max_iters
        ep == IF ends_epoch THEN step_each(it.schedulers, it.lr, TRUE) ELSE it
    IN  [run EXCEPT !.log = Append(@, run.lr),
                    !.schedulers = ep.schedulers,
                    !.lr = ep.lr,
                    !._iter = @ + 1,
                    !.phase = IF run._iter + 1 = run.train_cfg.max_iters
                              THEN "done" ELSE "train"]

(***************************************************************************)
(* The state of the strategy.  The strategy holds the model weights, the   *)
(* optimizer wrapper when it has one, and its parameter schedulers: none,  *)
(* a list (one item under the key None) or a dict of lists by optimizer    *)
(* name.  A scheduler is [id, step]; its state_dict is its step.  A state  *)
(* dict is [keys, state_dict, optimizer, param_schedulers], a field whose  *)
(* key is not in keys being empty.                                         *)
(***************************************************************************)
Unprepared ==
    [prepared |-> FALSE, model |-> 0, has_optim |-> FALSE, optimizer |-> NoValue,
     sched |-> "absent", param_schedulers |-> <<>>]

NoDict ==
    [keys |-> {}, state_dict |-> NoValue, optimizer |-> NoValue,
     param_schedulers |-> <<>>, save_optimizer |-> FALSE,
     save_param_scheduler |-> FALSE]

\* The methods BaseStrategy defines for loading state.
StrategyAttrs ==
    {"load_state_dict", "load_model_state_dict", "load_optim_state_dict",
     "load_scheduler_state_dict", "load_checkpoint", "save_checkpoint"}

\* scheduler_state_dict: the state of every scheduler, in order, per name.
scheduler_state_dict(st) ==
    [i \in 1..Len(st.param_schedulers) |->
        [key |-> st.param_schedulers[i].key,
         value |-> [j \in 1..Len(st.param_schedulers[i].value) |->
                       st.param_schedulers[i].value[j].step]]]

\* A state_dict whose two sections both follow save_optimizer.
state_dict_one_flag(st, save_optimizer, save_param_scheduler) ==
    LET so == save_optimizer /\ st.has_optim
        sp == save_optimizer /\ st.sched # "absent"
    IN  [keys |-> {"state_dict"}
                  \cup (IF so THEN {"optimizer"} ELSE {})
                  \cup (IF sp THEN {"param_schedulers"} ELSE {}),
         state_dict |-> st.model,
         optimizer |-> IF so THEN st.optimizer ELSE NoValue,
         param_schedulers |-> IF sp THEN scheduler_state_dict(st) ELSE <<>>,
         save_optimizer |-> save_optimizer,
         save_param_scheduler |-> save_param_scheduler]

\* strategy.state_dict(save_optimizer=..., save_param_scheduler=...)
state_dict(st, save_optimizer, save_param_scheduler) ==
    LET \* hasattr(self, 'optim_wrapper')
        so == save_optimizer /\ st.has_optim
        \* hasattr(self, 'param_schedulers')
        sp == save_param_scheduler /\ st.sched # "absent"
    IN  [keys |-> {"state_dict"}
                  \cup (IF so THEN {"optimizer"} ELSE {})
                  \cup (IF sp THEN {"param_schedulers"} ELSE {}),
         state_dict |-> st.model,
         optimizer |-> IF so THEN st.optimizer ELSE NoValue,
         param_schedulers |-> IF sp THEN scheduler_state_dict(st) ELSE <<>>,
         save_optimizer |-> save_optimizer,
         save_param_scheduler |-> save_param_scheduler]

\* zip(schedulers, states): the schedulers that have a state load it.
LoadZip(schedulers, states) ==
    [j \in 1..Len(schedulers) |->
        IF j <= Len(states) THEN [schedulers[j] EXCEPT !.step = states[j]]
        ELSE schedulers[j]]

\* load_scheduler_state_dict(state_dict): [st, err]
load_scheduler_state_dict(st, d) ==
    IF "param_schedulers" \notin d.keys
    THEN [st |-> st, err |-> Error("AssertionError", "param_schedulers")]
    ELSE IF st.sched = "absent"
    THEN [st |-> st, err |-> Error("AttributeError", "param_schedulers")]
    ELSE IF \E i \in 1..Len(st.param_schedulers) :
               ~HasKey(d.param_schedulers, st.param_schedulers[i].key)
    THEN [st |-> st, err |-> Error("KeyError", "param_schedulers")]
    ELSE [st |-> [st EXCEPT !.param_schedulers =
                     [i \in 1..Len(st.param_schedulers) |->
                         [st.param_schedulers[i] EXCEPT !.value =
                             LoadZip(st.param_schedulers[i].value,
                                     Lookup(d.param_schedulers,
                                            st.param_schedulers[i].key))]]],
          err |-> NoErr]

\* load_state_dict(state_dict): [st, err]
load_state_dict(st, d) ==
    IF "state_dict" \notin d.keys
    THEN [st |-> st, err |-> Error("AssertionError", "state_dict")]
    ELSE
    LET s1 == [st EXCEPT !.model = d.state_dict]
        s2 == IF "optimizer" \in d.keys
              THEN [s1 EXCEPT !.optimizer = d.optimizer] ELSE s1
    IN  IF "optimizer" \in d.keys /\ ~st.has_optim
        THEN [st |-> s1, err |-> Error("AttributeError", "optim_wrapper")]
        ELSE IF "param_schedulers" \notin d.keys
        THEN [st |-> s2, err |-> NoErr]
        \* self.load_param_scheduler(state_dict)
        ELSE IF "load_param_scheduler" \notin StrategyAttrs
        THEN [st |-> s2, err |-> Error("AttributeError", "load_param_scheduler")]
        ELSE load_scheduler_state_dict(s2, d)

(***************************************************************************)
(* Checkpoints.  A file holds the strategy's state dict (state), the meta  *)
(* dict and the message hub state, and the marks the checkpoint callbacks  *)
(* of the hooks left in it; the fields at_epoch, at_iter and by_epoch      *)
(* record the call that wrote it.                                          *)
(***************************************************************************)
NoFiles == [f \in {} |-> None]
Exists(d, f) == f \in DOMAIN d
\* Writing a file creates it or replaces what it held.
WriteFile(d, f, ck) == [g \in DOMAIN d \cup {f} |-> IF g = f THEN ck ELSE d[g]]
\* len(config.get('gpu_ids')) of the 'config' entry of a meta dict; g0
\* stands for a config without gpu_ids or with an empty list.
GpuCount == [g0 |-> 0, g1 |-> 1, g2 |-> 2]
NoCkpt == [epoch |-> 0, iter |-> 0, config |-> None, seed |-> None,
           dataset_meta |-> None, message_hub |-> 0,
           at_epoch |-> 0, at_iter |-> 0, by_epoch |-> FALSE,
           state |-> NoDict, marks |-> <<>>]

\* A hook whose checkpoint callbacks write into the checkpoint they are
\* given; the callbacks of the other hooks leave it as it is.
Mutates(type) == type = "CustomHook"

\* call_hook(stage, checkpoint=ck) on the hook queue: the callbacks run in
\* queue order, each once: [checkpoint, called].
call_hook_on(stage, ck) ==
    LET c == Candidates(_hooks, objs, stage)
        m == SelectSeq(c, LAMBDA h : Mutates(objs[h].type))
    IN  [checkpoint |-> [ck EXCEPT !.marks =
                            @ \o [i \in 1..Len(m) |-> [stage |-> stage, hook |-> m[i]]]],
         called |-> c]

\* A save_checkpoint that serializes before it calls the callback.
strategy_save_callback_late(ss, save_optimizer, save_param_scheduler, extra_ckpt, callback) ==
    [checkpoint |-> [extra_ckpt EXCEPT
                        !.state = state_dict(ss, save_optimizer, save_param_scheduler)],
     called |-> IF callback THEN Candidates(_hooks, objs, "before_save_checkpoint")
                ELSE <<>>]

\* BaseStrategy.save_checkpoint up to the call of the serializer:
\* [checkpoint, called], checkpoint being what is written.  extra_ckpt is
\* NoCkpt when the caller gives none; callback tells whether one is given.
strategy_save_checkpoint(ss, save_optimizer, save_param_scheduler, extra_ckpt, callback) ==
    LET \* state_dict = self.state_dict(...); state_dict.update(extra_ckpt)
        merged == [extra_ckpt EXCEPT
                      !.state = state_dict(ss, save_optimizer, save_param_scheduler)]
    IN  IF callback THEN call_hook_on("before_save_checkpoint", merged)
        ELSE [checkpoint |-> merged, called |-> <<>>]

\* BaseStrategy.load_checkpoint(filename, callback=...):
\* [ok, checkpoint, called, err]
strategy_load_checkpoint(d, filename, callback) ==
    IF ~Exists(d, filename)
    THEN [ok |-> FALSE, checkpoint |-> NoCkpt, called |-> <<>>,
          err |-> Error("FileNotFoundError", "_load_checkpoint")]
    ELSE LET f == IF callback THEN call_hook_on("after_load_checkpoint", d[filename])
                  ELSE [checkpoint |-> d[filename], called |-> <<>>]
         IN  [ok |-> TRUE, checkpoint |-> f.checkpoint, called |-> f.called,
              err |-> NoErr]

MetaNone == [kind |-> "None", config |-> None]
MetaBad == [kind |-> "notdict", config |-> None]
MetaDict(c) == [kind |-> "dict", config |-> c]

\* strategy._seed: the configured seed, or the one set_random_seed draws.
StrategySeed(seed) == IF seed = None THEN "generated" ELSE seed

\* runner.epoch, runner.iter once train_loop has been read
CounterOf(slot, n) == IF slot.tag = "loop" THEN n ELSE 0

\* Writing the current counters where the code writes the next ones.
SavedCounters(by_epoch, e, i) == [epoch |-> e, iter |-> i]

\* meta.update(epoch=self.epoch + 1, iter=self.iter) if by_epoch
\* else meta.update(epoch=self.epoch, iter=self.iter + 1)
MetaCounters(by_epoch, e, i) ==
    IF by_epoch THEN [epoch |-> e + 1, iter |-> i]
    ELSE [epoch |-> e, iter |-> i + 1]

\* st = [loop, built, epoch, iter, hub, seed]: the train loop slot, the
\* number of loops built, the loop counters, the message hub state and
\* the seed of _randomness_cfg.
save_checkpoint(st, a, d, filename, meta, by_epoch) ==
    IF meta.kind = "notdict"
    THEN [st |-> st, disk |-> d, err |-> Error("TypeError", "save_checkpoint")]
    ELSE
    LET tl == loop_property(st.loop, st.built)
        e == CounterOf(tl.slot, st.epoch)
        i == CounterOf(tl.slot, st.iter)
        c == MetaCounters(by_epoch, e, i)
        s1 == [st EXCEPT !.loop = tl.slot, !.built = tl.built]
    IN
    IF tl.slot.tag = None
    THEN [st |-> s1, disk |-> d, err |-> Error("AttributeError", "dataloader")]
    ELSE [st |-> s1,
          \* self.strategy.save_checkpoint(filename=filepath, ...,
          \*     extra_ckpt=checkpoint, callback=callback)
          disk |-> WriteFile(d, filename,
                      strategy_save_checkpoint(
                          strategy_state, TRUE, TRUE,
                          [epoch |-> c.epoch, iter |-> c.iter,
                           config |-> meta.config,
                           seed |-> StrategySeed(a.seed),
                           dataset_meta |-> a.dataset_meta,
                           message_hub |-> st.hub,
                           at_epoch |-> e, at_iter |-> i,
                           by_epoch |-> by_epoch,
                           state |-> NoDict, marks |-> <<>>],
                          TRUE).checkpoint),
          err |-> NoErr]

\* find_latest_checkpoint(work_dir): None when the directory holds no
\* checkpoint, else the file with the highest iteration count.
find_latest_checkpoint(d) ==
    IF DOMAIN d = {} THEN None
    ELSE LET top == SetMax({d[f].iter : f \in DOMAIN d})
         IN  CHOOSE f \in DOMAIN d : d[f].iter = top

\* FlexibleRunner.load_checkpoint(filename): strategy.load_checkpoint with
\* the callback that calls the after_load_checkpoint hooks.
load_checkpoint(d, filename) == strategy_load_checkpoint(d, filename, TRUE)

\* What an operation that read the file `read` got back from
\* load_checkpoint.
Returned(read) ==
    IF read = None THEN NoCkpt ELSE load_checkpoint(disk, read).checkpoint

\* The call_hook a checkpoint operation made.
CheckpointCall(stage) == [fn |-> stage, failing |-> 0, raised |-> None]

Outcome(st, e, read, lg) == [st |-> st, err |-> e, read |-> read, logs |-> lg]

\* FlexibleRunner.resume(filename)
resume(st, a, d, filename) ==
    LET l == load_checkpoint(d, filename)
        ck == l.checkpoint
        tl == loop_property(st.loop, st.built)
        s0 == [st EXCEPT !.loop = tl.slot, !.built = tl.built]
        s1 == [s0 EXCEPT !.epoch = ck.epoch, !.iter = ck.iter]
        mismatch == /\ ck.config # None
                    /\ GpuCount[ck.config] > 0
                    /\ GpuCount[ck.config] # a.world_size
        lg1 == {"load"} \cup (IF mismatch THEN {"gpu_mismatch"} ELSE {})
        reseed == ck.seed # None /\ ck.seed # st.seed
        lg2 == lg1 \cup (IF reseed /\ st.seed # None THEN {"seed_differs"} ELSE {})
        s2 == IF reseed THEN [s1 EXCEPT !.seed = ck.seed] ELSE s1
        lg3 == lg2 \cup (IF ck.dataset_meta # a.dataset_meta
                         THEN {"dataset_meta_differs"} ELSE {})
    IN
    IF ~l.ok THEN Outcome(st, l.err, None, {"load"})
    ELSE IF tl.slot.tag = None
    THEN Outcome(s0, Error("AttributeError", "_epoch"), filename, {"load"})
    ELSE IF mismatch /\ ~HasAttr("auto_scale_lr")
    THEN Outcome(s1, Error("AttributeError", "auto_scale_lr"), filename, lg1)
    ELSE IF mismatch /\ a.auto_scale_lr \in {None, "disabled"}
    THEN Outcome(s1, Error("RuntimeError", "auto_scale_lr"), filename, lg1)
    ELSE IF reseed /\ ~HasAttr("set_randomness")
    THEN Outcome(s2, Error("AttributeError", "set_randomness"), filename, lg2)
    ELSE Outcome([s2 EXCEPT !.hub = ck.message_hub], NoErr, filename,
                 lg3 \cup {"resumed"})

Decision(st, loaded, e, res, read, lg) ==
    [st |-> st, has_loaded |-> loaded, err |-> e, resumed |-> res,
     read |-> read, logs |-> lg]

\* A load_or_resume that resumes whenever load_from is given.
load_or_resume_always_resume(st, a, d, loaded) ==
    IF loaded \/ a.load_from = None
    THEN Decision(st, loaded, NoErr, None, None, {})
    ELSE LET r == resume(st, a, d, a.load_from)
         IN  Decision(r.st, TRUE, r.err, a.load_from, r.read, r.logs)

\* A load_or_resume that does not look at self._has_loaded.
load_or_resume_every_time(st, a, d, loaded) ==
    IF ~a.resume /\ a.load_from = None
    THEN Decision(st, loaded, NoErr, None, None, {})
    ELSE
    LET auto == a.resume /\ a.load_from = None
        resume_from == IF auto THEN find_latest_checkpoint(d)
                       ELSE IF a.resume THEN a.load_from ELSE None
        lg == IF auto THEN {"auto_resumed"} ELSE {}
    IN
    IF resume_from # None
    THEN LET r == resume(st, a, d, resume_from)
         IN  Decision(r.st, TRUE, r.err, resume_from, r.read, lg \cup r.logs)
    ELSE IF a.load_from # None
    THEN LET l == load_checkpoint(d, a.load_from)
         IN  Decision(st, TRUE, l.err, None,
                      IF l.ok THEN a.load_from ELSE None, lg \cup {"load"})
    ELSE Decision(st, loaded, NoErr, None, None, lg)

\* FlexibleRunner.load_or_resume()
load_or_resume(st, a, d, loaded) ==
    IF loaded THEN Decision(st, loaded, NoErr, None, None, {})
    ELSE IF ~a.resume /\ a.load_from = None
    THEN Decision(st, loaded, NoErr, None, None, {})
    ELSE
    LET auto == a.resume /\ a.load_from = None
        resume_from == IF auto THEN find_latest_checkpoint(d)
                       ELSE IF a.resume THEN a.load_from ELSE None
        lg == IF auto THEN {"auto_resumed"} ELSE {}
    IN
    IF resume_from # None
    THEN LET r == resume(st, a, d, resume_from)
         IN  Decision(r.st, TRUE, r.err, resume_from, r.read, lg \cup r.logs)
    ELSE IF a.load_from # None
    THEN LET l == load_checkpoint(d, a.load_from)
         IN  Decision(st, TRUE, l.err, None,
                      IF l.ok THEN a.load_from ELSE None, lg \cup {"load"})
    ELSE Decision(st, loaded, NoErr, None, None, lg)

DefaultArgs ==
    [model |-> "module", train_dataloader |-> "cfg", train_cfg |-> "cfg", optim_wrapper |-> "cfg",
     param_scheduler |-> None,
     val_dataloader |-> None, val_cfg |-> None, val_evaluator |-> None,
     test_dataloader |-> None, test_cfg |-> None, test_evaluator |-> None,
     compile |-> "bool", experiment_name |-> None, cfg_filename |-> None,
     default_hooks |-> NotGiven, custom_hooks |-> NotGiven,
     load_from |-> None, resume |-> FALSE, auto_scale_lr |-> None,
     seed |-> None, world_size |-> 1, dataset_meta |-> "A"]

(***************************************************************************)
(* LazyObject and LazyAttr.  A dotted name is the sequence of its parts, a *)
(* location string 'file, line n' the record of its parts.  The import     *)
(* system is a fixed world of modules: what importing each one does and    *)
(* which names it holds.                                                   *)
(***************************************************************************)
NoLoc == [given |-> FALSE, file |-> "", line |-> 0, split |-> FALSE]
Loc(f, n) == [given |-> TRUE, file |-> f, line |-> n, split |-> FALSE]
\* self.location.split(', line'): a list and no longer a string
Split(loc) == [loc EXCEPT !.split = TRUE]

\* The `module` argument: a str, a list of str, or something else.
StrMod(p) == [is |-> "str", paths |-> <<p>>]
ListMod(ps) == [is |-> "list", paths |-> ps]
BadMod == [is |-> "other", paths |-> <<>>]
NotAStr == "<int>"

\* The modules there are, and what importing one raises (None: nothing).
\* UnicodeDecodeError stands for an exception class that cannot be built
\* from a message alone.
World == {<<"pkg">>, <<"pkg", "sub">>, <<"boom">>, <<"odd">>}
ImportRaises(p) ==
    IF p \notin World THEN "ModuleNotFoundError"
    ELSE IF p = <<"boom">> THEN "ValueError"
    ELSE IF p = <<"odd">> THEN "UnicodeDecodeError"
    ELSE None
ModuleAttrs(p) ==
    IF p = <<"pkg">> THEN {"Thing"}
    ELSE IF p = <<"pkg", "sub">> THEN {"Leaf"}
    ELSE {}
TakesMessage(e) == e # "UnicodeDecodeError"
ImportKind(e) == e \in {"ImportError", "ModuleNotFoundError"}

\* The live objects: a module, or a name a module holds.
NoObj == [live |-> None, at |-> <<>>, attr |-> None]
ModuleObj(p) == [live |-> "module", at |-> p, attr |-> None]
AttrObj(p, nm) == [live |-> "object", at |-> p, attr |-> nm]

\* The outcome of a lazy operation: the value returned, or the exception
\* raised with the module or symbol and the location its message names;
\* the modules imported afterwards; the import_module calls made.
NoNames == [is |-> None, paths |-> <<>>]
Ret(v, sm, n) ==
    [ok |-> TRUE, value |-> v, exc |-> None, msg_names |-> NoNames,
     msg_location |-> NoLoc, sys_modules |-> sm, calls |-> n]
Raise(e, what, loc, sm, n) ==
    [ok |-> FALSE, value |-> NoObj, exc |-> e, msg_names |-> what,
     msg_location |-> loc, sys_modules |-> sm, calls |-> n]

\* importlib.import_module(p): the packages above p are imported first.
RECURSIVE import_module(_, _)
import_module(p, sm) ==
    LET up == IF Len(p) > 1 THEN import_module(SubSeq(p, 1, Len(p) - 1), sm)
              ELSE Ret(NoObj, sm, 0)
    IN  IF ~up.ok THEN up
        ELSE IF ImportRaises(p) # None
        THEN Raise(ImportRaises(p), StrMod(p), NoLoc, up.sys_modules, 0)
        ELSE Ret(ModuleObj(p), up.sys_modules \cup {p}, 0)

\* hasattr(obj, nm) and getattr(obj, nm): a module holds its own names and
\* the submodules imported so far; the other objects hold no names.
hasattr(obj, nm, sm) ==
    /\ obj.live = "module"
    /\ nm \in ModuleAttrs(obj.at) \/ (obj.at \o <<nm>>) \in sm
getattr(obj, nm, sm) ==
    IF nm \in ModuleAttrs(obj.at) THEN AttrObj(obj.at, nm)
    ELSE ModuleObj(obj.at \o <<nm>>)

\* raise type(e)(f'Failed to import {self._module} in {self.location} for {e}')
Reraise(e, mod, loc, sm, n) ==
    IF TakesMessage(e) THEN Raise(e, mod, loc, sm, n)
    ELSE Raise("TypeError", NoNames, NoLoc, sm, n)

\* The lazy values.
NoLazy == [cls |-> None]
LazyObject(mod, imp, loc, sm) ==
    IF mod.is = "other" \/ imp = NotAStr
    THEN Raise("TypeError", NoNames, NoLoc, sm, 0)
    ELSE Ret([cls |-> "LazyObject", _module |-> mod, _imported |-> imp,
              location |-> loc, name |-> None, source |-> NoLazy], sm, 0)

\* The property LazyObject.module and LazyObject.__str__; the first
\* element of an empty list is an IndexError.
module(v, sm) ==
    IF v._module.is = "str" THEN Ret(v._module.paths[1], sm, 0)
    ELSE IF v._module.paths = <<>> THEN Raise("IndexError", NoNames, NoLoc, sm, 0)
    ELSE Ret(<<v._module.paths[1][1]>>, sm, 0)
__str__(v, sm) ==
    IF v.cls = "LazyAttr" THEN Ret(<<v.name>>, sm, 0)
    ELSE IF v._imported # None THEN Ret(<<v._imported>>, sm, 0)
    ELSE module(v, sm)

LazyAttr(nm, src, loc, sm) ==
    LET s == __str__(src, sm)
        made(m) == Ret([cls |-> "LazyAttr", _module |-> StrMod(m), _imported |-> None,
                        location |-> loc, name |-> nm, source |-> src], sm, 0)
    IN  IF src.cls = "LazyObject"
        THEN IF src._module.is = "str" THEN made(src._module.paths[1])
             ELSE IF s.ok THEN made(s.value) ELSE s
        ELSE made(src._module.paths[1] \o <<src.name>>)

\* A lazy value that resolves when it is called.
RECURSIVE build(_, _)
call_builds(v, sm) == build(v, sm)

\* LazyObject.__call__ and LazyAttr.__call__
__call__(v, sm) == Raise("RuntimeError", NoNames, NoLoc, sm, 0)

__deepcopy__(v, sm) ==
    IF v.cls = "LazyObject" THEN LazyObject(v._module, v._imported, v.location, sm)
    ELSE LazyAttr(v.name, v.source, NoLoc, sm)

\* An attribute access that resolves the value it is made on.
getattr_eager(v, nm, sm) ==
    LET b == build(v, sm)
    IN  [LazyAttr(nm, v, NoLoc, b.sys_modules) EXCEPT !.calls = b.calls]

\* __getattr__ of a LazyObject and of a LazyAttr: called for the names the
\* instance does not hold.
__getattr__(v, nm, sm) ==
    IF v.cls = "LazyObject"
    THEN LazyAttr(nm, v, IF v.location.given THEN Split(v.location) ELSE v.location, sm)
    ELSE LazyAttr(nm, v, NoLoc, sm)

\* v.nm: an instance attribute when there is one, __getattr__ otherwise.
InstanceAttrs(v) ==
    IF v.cls = "LazyObject" THEN {"location"} ELSE {"location", "source"}
attribute(v, nm, sm) ==
    IF nm \notin InstanceAttrs(v) THEN __getattr__(v, nm, sm)
    ELSE IF nm = "location" THEN Ret(v.location, sm, 0)
    ELSE Ret(v.source, sm, 0)

\* The import_module calls of the list branch of LazyObject.build, one
\* after the other until one raises.
RECURSIVE import_each(_, _, _)
import_each(ps, sm, n) ==
    IF ps = <<>> THEN Ret(NoObj, sm, n)
    ELSE LET r == import_module(Head(ps), sm)
         IN  IF r.ok THEN import_each(Tail(ps), r.sys_modules, n + 1)
             ELSE [r EXCEPT !.calls = n + 1]

\* LazyObject.build()
build_object(v, sm) ==
    IF v._module.is = "str"
    THEN LET r == import_module(v._module.paths[1], sm)
         IN  IF ~r.ok THEN Reraise(r.exc, v._module, v.location, r.sys_modules, 1)
             ELSE IF v._imported = None THEN Ret(r.value, r.sys_modules, 1)
             ELSE IF hasattr(r.value, v._imported, r.sys_modules)
             THEN Ret(getattr(r.value, v._imported, r.sys_modules), r.sys_modules, 1)
             ELSE Raise("ImportError", StrMod(<<v._imported>>), v.location,
                        r.sys_modules, 1)
    ELSE LET each == import_each(v._module.paths, sm, 0)
         IN  IF ~each.ok
             THEN Reraise(each.exc, v._module, v.location, each.sys_modules, each.calls)
             ELSE IF v._module.paths = <<>>
             THEN Reraise("IndexError", v._module, v.location, sm, 0)
             ELSE LET top == import_module(<<v._module.paths[1][1]>>, each.sys_modules)
                  IN  IF top.ok THEN Ret(top.value, top.sys_modules, each.calls + 1)
                      ELSE Reraise(top.exc, v._module, v.location,
                                   top.sys_modules, each.calls + 1)

\* LazyAttr.build() from what self.source.build() gave; the property
\* LazyAttr.module returns nothing, so the message names no module.
build_attr(v, r) ==
    LET missing == Raise("ImportError", NoNames, v.location, r.sys_modules, r.calls)
    IN  IF ~r.ok
        THEN IF r.exc = "AttributeError" THEN missing ELSE r
        ELSE IF hasattr(r.value, v.name, r.sys_modules)
        THEN Ret(getattr(r.value, v.name, r.sys_modules), r.sys_modules, r.calls)
        ELSE missing

\* build() of a LazyObject or a LazyAttr
build(v, sm) ==
    IF v.cls = "LazyObject" THEN build_object(v, sm)
    ELSE build_attr(v, build(v.source, sm))

(***************************************************************************)
(* The state machine.                                                      *)
(***************************************************************************)
Init ==
    /\ pc = "new"
    /\ args = DefaultArgs
    /\ err = NoErr
    /\ events = <<>>
    /\ op = None
    /\ _hooks = <<>> /\ objs = <<>> /\ reg_log = <<>>
    /\ called = <<>> /\ last_call = NoCall
    /\ _train_loop = LoopNone /\ _val_loop = LoopNone /\ _test_loop = LoopNone
    /\ loops_built = 0
    /\ ret = LoopNone
    /\ regs = 0
    /\ reprioritized = FALSE
    /\ _has_loaded = FALSE
    /\ _epoch = 0 /\ _iter = 0 /\ message_hub = 0
    /\ _randomness_cfg = None
    /\ disk = NoFiles
    /\ resumed = None /\ last_read = None /\ logs = {}
    /\ returned = NoCkpt
    /\ steps = <<>> /\ prepares = 0 /\ started = FALSE
    /\ now = 0 /\ wire = NoValue
    /\ rank_pc = [r \in Ranks |-> "start"]
    /\ clock_read = [r \in Ranks |-> NoValue]
    /\ timestamp = [r \in Ranks |-> NoValue]
    /\ _timestamp = [r \in Ranks |-> NoValue]
    /\ build_in = NoBuild /\ param_schedulers = NotBuilt
    /\ strategy_state = Unprepared /\ saved_state = NoDict
    /\ pre_load = Unprepared /\ strat_err = NoErr /\ strat_op = None
    /\ lazy = NoLazy /\ lazy_arg = NoLazy /\ lazy_out = Ret(NoObj, {}, 0)
    /\ lazy_op = None /\ import_calls = 0 /\ sys_modules = {}
    /\ lr_run = NoRun /\ train_lr = <<>>

\* FlexibleRunner(**a)
Construct(a) ==
    /\ pc = "new"
    /\ LET r == __init__(a)
       IN  /\ pc' = IF r.ok THEN "ready" ELSE "failed"
           /\ args' = a
           /\ err' = r.err
           /\ events' = r.events
           /\ _hooks' = r.h.hooks /\ objs' = r.h.objs /\ reg_log' = r.h.log
           /\ _train_loop' = r.train /\ _val_loop' = r.val /\ _test_loop' = r.test
    /\ op' = "__init__"
    /\ UNCHANGED extVars
    /\ _has_loaded' = FALSE
    /\ _randomness_cfg' = a.seed
    /\ UNCHANGED <<called, last_call, loops_built, ret, regs, reprioritized>>
    /\ UNCHANGED <<_epoch, _iter, message_hub, disk, resumed, last_read, logs,
                   returned>>

\* Reading runner.train_loop, runner.val_loop, runner.test_loop.
GetTrainLoop ==
    /\ pc = "ready" /\ loops_built < MaxBuilds
    /\ LET r == loop_property(_train_loop, loops_built)
       IN  _train_loop' = r.slot /\ loops_built' = r.built /\ ret' = r.ret
    /\ op' = "train_loop" /\ err' = NoErr
    /\ UNCHANGED extVars
    /\ UNCHANGED <<pc, args, events, regs, hookVars, ckptVars, _val_loop, _test_loop>>

GetValLoop ==
    /\ pc = "ready" /\ loops_built < MaxBuilds
    /\ LET r == loop_property(_val_loop, loops_built)
       IN  _val_loop' = r.slot /\ loops_built' = r.built /\ ret' = r.ret
    /\ op' = "val_loop" /\ err' = NoErr
    /\ UNCHANGED extVars
    /\ UNCHANGED <<pc, args, events, regs, hookVars, ckptVars, _train_loop, _test_loop>>

GetTestLoop ==
    /\ pc = "ready" /\ loops_built < MaxBuilds
    /\ LET r == loop_property(_test_loop, loops_built)
       IN  _test_loop' = r.slot /\ loops_built' = r.built /\ ret' = r.ret
    /\ op' = "test_loop" /\ err' = NoErr
    /\ UNCHANGED extVars
    /\ UNCHANGED <<pc, args, events, regs, hookVars, ckptVars, _train_loop, _val_loop>>

RunnerState ==
    [loop |-> _train_loop, built |-> loops_built, epoch |-> _epoch,
     iter |-> _iter, hub |-> message_hub, seed |-> _randomness_cfg]

SetRunnerState(st) ==
    /\ _train_loop' = st.loop /\ loops_built' = st.built
    /\ _epoch' = st.epoch /\ _iter' = st.iter
    /\ message_hub' = st.hub /\ _randomness_cfg' = st.seed

\* What a checkpoint operation that read the file `read` (None: it read
\* none) leaves: the checkpoint it got and the call_hook that was made.
Loaded(read) ==
    /\ returned' = Returned(read)
    /\ IF read # None
       THEN /\ called' = Candidates(_hooks, objs, "after_load_checkpoint")
            /\ last_call' = CheckpointCall("after_load_checkpoint")
       ELSE UNCHANGED <<called, last_call>>

\* runner.load_or_resume()
LoadOrResume ==
    /\ pc = "ready"
    /\ LET r == load_or_resume(RunnerState, args, disk, _has_loaded)
       IN  /\ SetRunnerState(r.st)
           /\ _has_loaded' = r.has_loaded
           /\ err' = r.err /\ resumed' = r.resumed
           /\ last_read' = r.read /\ logs' = r.logs
           /\ Loaded(r.read)
    /\ op' = "load_or_resume"
    /\ UNCHANGED extVars
    /\ UNCHANGED <<pc, args, events, regs, _hooks, objs, reg_log, reprioritized,
                   _val_loop, _test_loop, ret, disk>>

\* runner.resume(filename)
Resume(filename) ==
    /\ pc = "ready"
    /\ LET r == resume(RunnerState, args, disk, filename)
       IN  /\ SetRunnerState(r.st)
           /\ err' = r.err /\ last_read' = r.read /\ logs' = r.logs
           /\ Loaded(r.read)
    /\ resumed' = filename
    /\ op' = "resume"
    /\ UNCHANGED extVars
    /\ UNCHANGED <<pc, args, events, regs, _hooks, objs, reg_log, reprioritized,
                   _val_loop, _test_loop, ret, disk, _has_loaded>>

\* runner.load_checkpoint(filename)
LoadCheckpoint(filename) ==
    /\ pc = "ready"
    /\ LET l == load_checkpoint(disk, filename)
       IN  /\ err' = l.err
           /\ last_read' = IF l.ok THEN filename ELSE None
           /\ Loaded(IF l.ok THEN filename ELSE None)
    /\ logs' = {"load"} /\ resumed' = None
    /\ op' = "load_checkpoint"
    /\ UNCHANGED extVars
    /\ UNCHANGED <<pc, args, events, regs, _hooks, objs, reg_log, reprioritized,
                   loopVars, disk, _has_loaded,
                   _epoch, _iter, message_hub, _randomness_cfg>>

\* runner.save_checkpoint(work_dir, filename, meta=meta, by_epoch=by_epoch),
\* called with the name of a file that does not exist yet.
SaveCheckpoint(filename, meta, by_epoch) ==
    /\ pc = "ready" /\ ~Exists(disk, filename)
    /\ LET r == save_checkpoint(RunnerState, args, disk, filename, meta, by_epoch)
       IN  /\ SetRunnerState(r.st)
           /\ disk' = r.disk /\ err' = r.err
           /\ IF r.err = NoErr
              THEN /\ called' = Candidates(_hooks, objs, "before_save_checkpoint")
                   /\ last_call' = CheckpointCall("before_save_checkpoint")
              ELSE UNCHANGED <<called, last_call>>
    /\ resumed' = None /\ last_read' = None /\ logs' = {}
    /\ returned' = NoCkpt
    /\ op' = "save_checkpoint"
    /\ UNCHANGED extVars
    /\ UNCHANGED <<pc, args, events, regs, _hooks, objs, reg_log, reprioritized,
                   _val_loop, _test_loop, ret, _has_loaded>>

\* The train loop finishes an iteration: the counter advances and the
\* message hub records it.
TrainIter ==
    /\ pc = "ready" /\ _train_loop.tag = "loop" /\ _iter < MaxIter
    /\ _iter' = _iter + 1 /\ message_hub' = _iter + 1
    /\ op' = "run_iter" /\ err' = NoErr
    /\ UNCHANGED extVars
    /\ resumed' = None /\ last_read' = None /\ logs' = {}
    /\ returned' = NoCkpt
    /\ UNCHANGED <<pc, args, events, regs, hookVars, loopVars, disk, _has_loaded,
                   _epoch, _randomness_cfg>>

\* The train loop finishes an epoch.
TrainEpoch ==
    /\ pc = "ready" /\ _train_loop.tag = "loop" /\ _epoch < MaxEpoch
    /\ _epoch' = _epoch + 1
    /\ op' = "run_epoch" /\ err' = NoErr
    /\ UNCHANGED extVars
    /\ resumed' = None /\ last_read' = None /\ logs' = {}
    /\ returned' = NoCkpt
    /\ UNCHANGED <<pc, args, events, regs, hookVars, loopVars, disk, _has_loaded,
                   _iter, message_hub, _randomness_cfg>>

\* The process ends: the runner is gone, the work directory stays.
Exit ==
    /\ pc \in {"ready", "failed"}
    /\ pc' = "new" /\ args' = DefaultArgs /\ err' = NoErr /\ events' = <<>>
    /\ op' = None
    /\ _hooks' = <<>> /\ objs' = <<>> /\ reg_log' = <<>>
    /\ called' = <<>> /\ last_call' = NoCall
    /\ _train_loop' = LoopNone /\ _val_loop' = LoopNone /\ _test_loop' = LoopNone
    /\ loops_built' = 0 /\ ret' = LoopNone /\ regs' = 0 /\ reprioritized' = FALSE
    /\ _has_loaded' = FALSE /\ _epoch' = 0 /\ _iter' = 0 /\ message_hub' = 0
    /\ _randomness_cfg' = None
    /\ resumed' = None /\ last_read' = None /\ logs' = {}
    /\ returned' = NoCkpt
    /\ steps' = <<>> /\ prepares' = 0 /\ started' = FALSE
    /\ UNCHANGED <<disk, distVars, stratVars, cfgVars>>

\* runner.register_hook(hook, priority)
RegisterHook(hook, priority) ==
    /\ pc = "ready"
    /\ LET r == register_hook(_hooks, objs, reg_log, hook, priority)
       IN  /\ _hooks' = r.hooks /\ objs' = r.objs /\ reg_log' = r.log
           /\ err' = r.err
           /\ reprioritized' =
                  (reprioritized
                   \/ \E i \in 1..Len(_hooks) :
                         get_priority(r.objs[_hooks[i]].priority)
                             # get_priority(objs[_hooks[i]].priority))
    /\ op' = "register_hook"
    /\ UNCHANGED extVars
    /\ regs' = regs + 1
    /\ called' = <<>> /\ last_call' = NoCall
    /\ UNCHANGED <<pc, args, events, loopVars, ckptVars>>

\* runner.call_hook(fn)
CallHook(fn) ==
    /\ pc = "ready"
    /\ LET c == Candidates(_hooks, objs, fn)
       IN  \E k \in 0..Len(c), raised \in Raised :
              /\ k = 0 => raised = "TypeError"
              /\ LET r == call_hook(_hooks, objs, fn, k, raised)
                 IN  /\ called' = r.called
                     /\ err' = r.err
                     /\ last_call' = [fn |-> fn,
                                      failing |-> IF k = 0 THEN 0 ELSE c[k],
                                      raised |-> IF k = 0 THEN None ELSE raised]
    /\ op' = "call_hook"
    /\ UNCHANGED extVars
    /\ UNCHANGED <<pc, args, events, regs, _hooks, objs, reg_log, reprioritized,
                   loopVars, ckptVars>>

runnerVars == <<pc, args, err, events, op, regs, hookVars, loopVars, ckptVars, runVars>>

\* Time passes.
Tick ==
    /\ now < MaxClock
    /\ now' = now + 1
    /\ UNCHANGED <<runnerVars, cfgVars, stratVars, rank_pc, clock_read, timestamp, wire,
                   _timestamp>>

\* timestamp = torch.tensor(time.time(), dtype=torch.float64)
ReadClock(r) ==
    /\ rank_pc[r] = "start"
    /\ clock_read' = [clock_read EXCEPT ![r] = now]
    /\ timestamp' = [timestamp EXCEPT ![r] = now]
    /\ rank_pc' = [rank_pc EXCEPT ![r] = "read"]
    /\ UNCHANGED <<runnerVars, cfgVars, stratVars, now, wire, _timestamp>>

\* The rank enters broadcast(timestamp); rank 0 sends its tensor.
EnterBroadcast(r) ==
    /\ rank_pc[r] = "read"
    /\ rank_pc' = [rank_pc EXCEPT ![r] = "broadcast"]
    /\ wire' = IF r = 0 THEN timestamp[0] ELSE wire
    /\ UNCHANGED <<runnerVars, cfgVars, stratVars, now, clock_read, timestamp, _timestamp>>

\* broadcast(timestamp) returns on the rank, which needs what rank 0 sent.
LeaveBroadcast(r) ==
    /\ rank_pc[r] = "broadcast" /\ wire # NoValue
    /\ timestamp' = [timestamp EXCEPT ![r] = broadcast(r, timestamp[r], wire)]
    /\ rank_pc' = [rank_pc EXCEPT ![r] = "received"]
    /\ UNCHANGED <<runnerVars, cfgVars, stratVars, now, clock_read, wire, _timestamp>>

\* self._timestamp = time.strftime(..., time.localtime(timestamp.item()))
SetTimestamp(r) ==
    /\ rank_pc[r] = "received"
    /\ _timestamp' = [_timestamp EXCEPT
                         ![r] = setup_env_timestamp(clock_read[r], timestamp[r])]
    /\ rank_pc' = [rank_pc EXCEPT ![r] = "done"]
    /\ UNCHANGED <<runnerVars, cfgVars, stratVars, now, clock_read, timestamp, wire>>

\* strategy.build_param_scheduler(scheduler, default_args) with
\* strategy.optim_wrapper = optim_wrapper.
BuildParamScheduler(optim_wrapper, scheduler, default_args) ==
    /\ build_in' = [optim_wrapper |-> optim_wrapper, scheduler |-> scheduler,
                    default_args |-> default_args]
    /\ param_schedulers' = build_param_scheduler(optim_wrapper, scheduler, default_args)
    /\ UNCHANGED <<runnerVars, cfgVars, distVars, stateVars>>

\* strategy.prepare(...) leaves the strategy with a model, with or
\* without an optimizer wrapper, and with its parameter schedulers.
PrepareStrategy(has_optim, sched, schedulers) ==
    /\ ~strategy_state.prepared
    /\ strategy_state' = [prepared |-> TRUE, model |-> 0, has_optim |-> has_optim,
                          optimizer |-> IF has_optim THEN 0 ELSE NoValue,
                          sched |-> sched, param_schedulers |-> schedulers]
    /\ strat_op' = "prepare" /\ strat_err' = NoErr
    /\ UNCHANGED <<runnerVars, cfgVars, distVars, schedVars, saved_state, pre_load>>

\* scheduler.step() on every scheduler: scheduler id advances by id.
StepAll(by_name) ==
    [i \in 1..Len(by_name) |->
        [key |-> by_name[i].key,
         value |-> [j \in 1..Len(by_name[i].value) |->
                       [id |-> by_name[i].value[j].id,
                        step |-> by_name[i].value[j].step + by_name[i].value[j].id]]]]

\* The largest number of steps a component of the strategy has taken.
Steps(st) ==
    SetMax({st.model, st.optimizer}
           \cup UNION {{st.param_schedulers[i].value[j].step
                           \div st.param_schedulers[i].value[j].id :
                        j \in 1..Len(st.param_schedulers[i].value)} :
                     i \in 1..Len(st.param_schedulers)})

\* A training step: the weights and the optimizer state change, every
\* scheduler steps at its own rate.
Step ==
    /\ strategy_state.prepared /\ Steps(strategy_state) < MaxSteps
    /\ strategy_state' =
          [strategy_state EXCEPT
              !.model = @ + 1,
              !.optimizer = IF strategy_state.has_optim THEN @ + 1 ELSE @,
              !.param_schedulers = StepAll(@)]
    /\ strat_op' = "step" /\ strat_err' = NoErr
    /\ UNCHANGED <<runnerVars, cfgVars, distVars, schedVars, saved_state, pre_load>>

\* strategy.state_dict(save_optimizer=..., save_param_scheduler=...)
StateDict(save_optimizer, save_param_scheduler) ==
    /\ strategy_state.prepared
    /\ saved_state' = state_dict(strategy_state, save_optimizer, save_param_scheduler)
    /\ strat_op' = "state_dict" /\ strat_err' = NoErr
    /\ UNCHANGED <<runnerVars, cfgVars, distVars, schedVars, strategy_state, pre_load>>

\* strategy.load_state_dict(state) on what state_dict() returned
LoadStateDict ==
    /\ strategy_state.prepared /\ saved_state # NoDict
    /\ LET r == load_state_dict(strategy_state, saved_state)
       IN  strategy_state' = r.st /\ strat_err' = r.err
    /\ pre_load' = strategy_state
    /\ strat_op' = "load_state_dict"
    /\ UNCHANGED <<runnerVars, cfgVars, distVars, schedVars, saved_state>>

\* strategy.load_scheduler_state_dict(state) on what state_dict() returned
LoadSchedulerStateDict ==
    /\ strategy_state.prepared /\ saved_state # NoDict
    /\ LET r == load_scheduler_state_dict(strategy_state, saved_state)
       IN  strategy_state' = r.st /\ strat_err' = r.err
    /\ pre_load' = strategy_state
    /\ strat_op' = "load_scheduler_state_dict"
    /\ UNCHANGED <<runnerVars, cfgVars, distVars, schedVars, saved_state>>

(***************************************************************************)
(* train(), val() and test().  Each checks its loop config, builds its     *)
(* loop and then goes through the same steps from load_or_resume on.       *)
(***************************************************************************)

\* The before_run hooks called ahead of strategy.prepare.
TailStepsHooksFirst == <<"load_or_resume", "before_run", "prepare", "run", "after_run">>

\* The statements train(), val() and test() end with, in program order.
TailSteps == <<"load_or_resume", "prepare", "before_run", "run", "after_run">>

\* The steps performed when the call has got as far as `step`.
StepsTo(done, step) ==
    done \o SubSeq(TailSteps, 1,
                   CHOOSE i \in 1..Len(TailSteps) : TailSteps[i] = step)

\* What a step of a launch can fail at: strategy.prepare, a before_run or
\* after_run callback, loop.run().
Fails == {None, "prepare", "before_run", "run", "after_run"}

\* loop.run(): the train loop runs up to max_iters and max_epochs, the
\* message hub recording the iterations; a val or test loop leaves the
\* training counters alone.
loop_run(st, which) ==
    IF which = "train"
    THEN [st EXCEPT !.iter = MaxIter, !.epoch = MaxEpoch,
                    !.hub = IF st.iter < MaxIter THEN MaxIter ELSE st.hub]
    ELSE st

\* A launch that goes on to the loop after a before_run hook raised.
launch_past_hooks(which, l, b, f, hs, ob, done, n, strt, fail, k, raised) ==
    LET Call(fn) == [fn |-> fn,
                     failing |-> IF fail = fn THEN Candidates(hs, ob, fn)[k] ELSE 0,
                     raised |-> IF fail = fn THEN raised ELSE None]
        Out(st2, e, step, n2, strt2, cl, lc) ==
            [st |-> st2, has_loaded |-> l.has_loaded, err |-> e,
             resumed |-> l.resumed, read |-> l.read, logs |-> l.logs,
             steps |-> StepsTo(done, step), prepares |-> n2, started |-> strt2,
             called |-> cl, last_call |-> lc]
        running == strt \/ which = "train"
    IN  IF l.err # NoErr
        THEN Out(l.st, l.err, "load_or_resume", n, strt, <<>>, NoCall)
        ELSE IF fail = "prepare"
        THEN Out(l.st, Error(raised, "prepare"), "prepare", n + 1, strt, <<>>, NoCall)
        ELSE IF fail = "run"
        THEN Out(l.st, Error(raised, "run"), "run", n + 1, running,
                 b.called, Call("before_run"))
        ELSE Out(loop_run(l.st, which), f.err, "after_run", n + 1, running,
                 f.called, Call("after_run"))

\* From load_or_resume to the return of train(), val() or test().
\* done: the steps performed before; n: the prepare calls made so far;
\* fail, k, raised: the step that raises, the callback that raises, what
\* is raised.
launch_from(which, l, b, f, hs, ob, done, n, strt, fail, k, raised) ==
    LET Call(fn) == [fn |-> fn,
                     failing |-> IF fail = fn THEN Candidates(hs, ob, fn)[k] ELSE 0,
                     raised |-> IF fail = fn THEN raised ELSE None]
        Out(st2, e, step, n2, strt2, cl, lc) ==
            [st |-> st2, has_loaded |-> l.has_loaded, err |-> e,
             resumed |-> l.resumed, read |-> l.read, logs |-> l.logs,
             steps |-> StepsTo(done, step), prepares |-> n2, started |-> strt2,
             called |-> cl, last_call |-> lc]
        running == strt \/ which = "train"
    IN  IF l.err # NoErr
        THEN Out(l.st, l.err, "load_or_resume", n, strt, <<>>, NoCall)
        ELSE IF fail = "prepare"
        THEN Out(l.st, Error(raised, "prepare"), "prepare", n + 1, strt, <<>>, NoCall)
        ELSE IF b.err # NoErr
        THEN Out(l.st, b.err, "before_run", n + 1, strt, b.called, Call("before_run"))
        ELSE IF fail = "run"
        THEN Out(l.st, Error(raised, "run"), "run", n + 1, running,
                 b.called, Call("before_run"))
        ELSE Out(loop_run(l.st, which), f.err, "after_run", n + 1, running,
                 f.called, Call("after_run"))

\* train(), val() or test() from its call of load_or_resume on: l is what
\* load_or_resume leaves, b and f what the before_run and after_run hooks do.
launch(which, st, a, d, loaded, hs, ob, done, n, strt, fail, k, raised) ==
    launch_from(which, load_or_resume(st, a, d, loaded),
                call_hook(hs, ob, "before_run",
                          IF fail = "before_run" THEN k ELSE 0, raised),
                call_hook(hs, ob, "after_run",
                          IF fail = "after_run" THEN k ELSE 0, raised),
                hs, ob, done, n, strt, fail, k, raised)

\* The inputs of a launch: a callback can only raise in a hook of the queue.
FailInputs(fail, k, raised) ==
    /\ fail \in {"before_run", "after_run"} =>
          k \in 1..Len(Candidates(_hooks, objs, fail))
    /\ fail \in {"prepare", "run"} => k = 0
    /\ fail = None => (k = 0 /\ raised = "TypeError")

\* The call raised before it reached load_or_resume.
Refuse(e, stp) ==
    /\ err' = e /\ steps' = stp
    /\ resumed' = None /\ last_read' = None /\ logs' = {}
    /\ returned' = NoCkpt
    /\ UNCHANGED <<_train_loop, _val_loop, _test_loop, loops_built, _has_loaded,
                   _epoch, _iter, message_hub, _randomness_cfg, prepares,
                   started, called, last_call>>

\* The state a launch leaves.
Finish(r) ==
    /\ SetRunnerState(r.st)
    /\ _has_loaded' = r.has_loaded
    /\ err' = r.err /\ resumed' = r.resumed
    /\ last_read' = r.read /\ logs' = r.logs
    /\ returned' = Returned(r.read)
    /\ steps' = r.steps /\ prepares' = r.prepares /\ started' = r.started
    /\ called' = IF r.last_call # NoCall THEN r.called
                 ELSE IF r.read # None
                 THEN Candidates(_hooks, objs, "after_load_checkpoint")
                 ELSE called
    /\ last_call' = IF r.last_call # NoCall THEN r.last_call
                    ELSE IF r.read # None
                    THEN CheckpointCall("after_load_checkpoint")
                    ELSE last_call

\* runner.train()
Train(fail, k, raised) ==
    /\ pc = "ready" /\ prepares < MaxLaunches
    /\ FailInputs(fail, k, raised)
    /\ op' = "train"
    /\ IF args.model # "module"
       \* assert hasattr(ori_model, 'train_step')
       THEN Refuse(Error("AssertionError", "train_step"), <<>>)
       ELSE IF _train_loop.tag = None
       THEN Refuse(Error("RuntimeError", "_train_loop"), <<"check_cfg">>)
       ELSE LET t == build_loop(_train_loop, loops_built)
                v == IF _val_loop.tag = None
                     THEN [loop |-> _val_loop, built |-> t.built]
                     ELSE build_loop(_val_loop, t.built)
                done == <<"check_cfg", "build_loop">>
                        \o (IF _val_loop.tag = None THEN <<>> ELSE <<"build_val_loop">>)
                st == [RunnerState EXCEPT !.loop = t.loop, !.built = v.built]
            IN  /\ Finish(launch("train", st, args, disk, _has_loaded, _hooks,
                                 objs, done, prepares, started, fail, k, raised))
                /\ _val_loop' = v.loop
                /\ UNCHANGED _test_loop
    /\ UNCHANGED <<pc, args, events, regs, _hooks, objs, reg_log, reprioritized,
                   ret, disk, distVars, stratVars, cfgVars>>

\* runner.val()
Val(fail, k, raised) ==
    /\ pc = "ready" /\ prepares < MaxLaunches
    /\ FailInputs(fail, k, raised)
    /\ op' = "val"
    /\ IF _val_loop.tag = None
       THEN Refuse(Error("RuntimeError", "_val_loop"), <<"check_cfg">>)
       ELSE LET v == build_loop(_val_loop, loops_built)
                st == [RunnerState EXCEPT !.built = v.built]
            IN  /\ Finish(launch("val", st, args, disk, _has_loaded, _hooks,
                                 objs, <<"check_cfg", "build_loop">>, prepares,
                                 started, fail, k, raised))
                /\ _val_loop' = v.loop
                /\ UNCHANGED _test_loop
    /\ UNCHANGED <<pc, args, events, regs, _hooks, objs, reg_log, reprioritized,
                   ret, disk, distVars, stratVars, cfgVars>>

\* runner.test()
Test(fail, k, raised) ==
    /\ pc = "ready" /\ prepares < MaxLaunches
    /\ FailInputs(fail, k, raised)
    /\ op' = "test"
    /\ IF _test_loop.tag = None
       THEN Refuse(Error("RuntimeError", "_test_loop"), <<"check_cfg">>)
       ELSE LET v == build_loop(_test_loop, loops_built)
                st == [RunnerState EXCEPT !.built = v.built]
            IN  /\ Finish(launch("test", st, args, disk, _has_loaded, _hooks,
                                 objs, <<"check_cfg", "build_loop">>, prepares,
                                 started, fail, k, raised))
                /\ _test_loop' = v.loop
                /\ UNCHANGED _val_loop
    /\ UNCHANGED <<pc, args, events, regs, _hooks, objs, reg_log, reprioritized,
                   ret, disk, distVars, stratVars, cfgVars>>

(***************************************************************************)
(* The hook queue: a runner built with two or four default hooks, then     *)
(* register_hook and call_hook in any order.                               *)
(***************************************************************************)
KeepTwoDefaults ==
    Given(<< Item("runtime_info", HookNone), Item("sampler_seed", HookNone),
             Item("param_scheduler", HookNone), Item("checkpoint", HookNone) >>)

KeepFourDefaults ==
    Given(<< Item("runtime_info", HookNone), Item("checkpoint", HookNone) >>)

\* strategy.save_checkpoint(filename, save_optimizer=..., save_param_scheduler=...)
\* called on the strategy itself, with no extra data and no callback.
StrategySaveCheckpoint(filename, save_optimizer, save_param_scheduler) ==
    /\ pc = "ready" /\ strategy_state.prepared /\ ~Exists(disk, filename)
    /\ disk' = WriteFile(disk, filename,
                         strategy_save_checkpoint(strategy_state, save_optimizer,
                                                  save_param_scheduler, NoCkpt,
                                                  FALSE).checkpoint)
    /\ op' = "strategy.save_checkpoint" /\ err' = NoErr
    /\ resumed' = None /\ last_read' = None /\ logs' = {}
    /\ returned' = NoCkpt
    /\ UNCHANGED extVars
    /\ UNCHANGED <<pc, args, events, regs, hookVars, loopVars, _has_loaded,
                   _epoch, _iter, message_hub, _randomness_cfg>>

\* strategy.load_checkpoint(filename) called on the strategy itself, with
\* no callback.
StrategyLoadCheckpoint(filename) ==
    /\ pc = "ready"
    /\ LET l == strategy_load_checkpoint(disk, filename, FALSE)
       IN  /\ err' = l.err
           /\ last_read' = IF l.ok THEN filename ELSE None
           /\ returned' = l.checkpoint
    /\ op' = "strategy.load_checkpoint"
    /\ resumed' = None /\ logs' = {}
    /\ UNCHANGED extVars
    /\ UNCHANGED <<pc, args, events, regs, hookVars, loopVars, disk, _has_loaded,
                   _epoch, _iter, message_hub, _randomness_cfg>>

HooksInitArgs ==
    {[DefaultArgs EXCEPT !.default_hooks = KeepFourDefaults],
     [DefaultArgs EXCEPT !.default_hooks = KeepTwoDefaults]}

HookInputs ==
    {HookDict("CustomHook", None), HookDict("CustomHook", "i20"), HookNone}
    \cup {HookObj(i) : i \in 1..Len(objs)}

PriorityArgs == {None, "i65", "VERY_HIGH"}
FnNames == {"before_run", "on_custom"}

NextHooks ==
    \/ \E a \in HooksInitArgs : Construct(a)
    \/ \E h \in HookInputs, p \in PriorityArgs :
          regs < MaxRegs /\ RegisterHook(h, p)
    \/ \E fn \in FnNames : CallHook(fn)

SpecHooks == Init /\ [][NextHooks]_vars

(***************************************************************************)
(* The default hooks: a runner built with any default_hooks mapping and    *)
(* custom_hooks list, then new custom hooks registered.                    *)
(***************************************************************************)
UserNames == {"runtime_info", "checkpoint", "extra"}
UserValues == {HookNone, HookDict("CustomHook", None), HookDict("LoggerHook", "VERY_HIGH")}
UserItems == {Item(n, h) : n \in UserNames, h \in UserValues}
UserMappings ==
    {m \in UNION {[1..n -> UserItems] : n \in 0..MaxUser} :
        \A i, j \in 1..Len(m) : i # j => m[i].name # m[j].name}

CustomInputs == {HookDict("CustomHook", None), HookDict("CustomHook", "i20"),
                 HookDict("CustomHook", "VERY_LOW")}
CustomLists == {NotGiven} \cup {Given(<<c>>) : c \in CustomInputs \cup {HookNone}}

DefaultsInitArgs ==
    {[DefaultArgs EXCEPT !.default_hooks = d, !.custom_hooks = c] :
        d \in {NotGiven} \cup {Given(m) : m \in UserMappings}, c \in CustomLists}

NextDefaults ==
    \/ \E a \in DefaultsInitArgs : Construct(a)
    \/ \E h \in CustomInputs, p \in {None, "VERY_HIGH"} :
          regs < MaxCustom /\ RegisterHook(h, p)

SpecDefaults == Init /\ [][NextDefaults]_vars

(***************************************************************************)
(* Properties of the hook queue.                                           *)
(***************************************************************************)
PrioOf(h) == get_priority(objs[h].priority)
\* How many of seq[1..i] are the object seq[i].
Occ(seq, i) == Cardinality({j \in 1..i : seq[j] = seq[i]})
\* The register_hook call that put the entry called[i] into the queue: the
\* n-th entry of an object comes from the n-th registration of that object.
RegIdx(i) == CHOOSE r \in 1..Len(reg_log) :
                reg_log[r] = called[i] /\ Occ(reg_log, r) = Occ(called, i)

\* The invocations of the last call_hook went by non-decreasing priority
\* value, hooks of equal value in the order of their registration.
CalledInOrder ==
    \A i, j \in 1..Len(called) :
        i < j =>
            /\ PrioOf(called[i]) <= PrioOf(called[j])
            /\ PrioOf(called[i]) = PrioOf(called[j]) => RegIdx(i) < RegIdx(j)

C2_AllErrorsAnnotated ==
    (op = "call_hook" /\ last_call.failing # 0) =>
        /\ err.kind # None
        /\ err.hook = last_call.failing
        /\ called[Len(called)] = last_call.failing

\* C2 amended: an error of a callback always leaves call_hook (it is never
\* swallowed) and ends the call at the failing hook; a TypeError is
\* re-raised as a TypeError carrying the failing hook, an error of any
\* other kind leaves as it was raised, without the hook.
C2_ErrorsPropagate ==
    (op = "call_hook" /\ last_call.failing # 0) =>
        /\ err.kind = last_call.raised
        /\ (last_call.raised = "TypeError" => err.hook = last_call.failing)
        /\ (last_call.raised # "TypeError" => err.hook = 0)
        /\ LET c == Candidates(_hooks, objs, last_call.fn)
           IN  /\ Len(called) >= 1 /\ Len(called) <= Len(c)
               /\ called = SubSeq(c, 1, Len(called))
               /\ called[Len(called)] = last_call.failing

\* A callback that is not the last one raises an error that is no TypeError.
C2_Witness ==
    /\ op = "call_hook" /\ last_call.raised = "ValueError"
    /\ Len(called) >= 2
    /\ Len(called) < Len(Candidates(_hooks, objs, last_call.fn))

DefaultOrder ==
    <<"RuntimeInfoHook", "IterTimerHook", "DistSamplerSeedHook", "LoggerHook",
      "ParamSchedulerHook", "CheckpointHook">>

\* The hooks that register_default_hooks registered, in queue order.
DefaultsInQueue(n) ==
    SelectSeq(_hooks, LAMBDA h : \E i \in 1..n : reg_log[i] = h)
TypesOf(hs) == [i \in 1..Len(hs) |-> objs[hs[i]].type]

UserEntry(user, name) == user[CHOOSE i \in 1..Len(user) : user[i].name = name]
ExpectedDefaults(user) ==
    LET kept == SelectSeq(BuiltinDefaults,
                  LAMBDA it : it.name \notin Names(user)
                              \/ UserEntry(user, it.name).hook.kind # None)
    IN  [i \in 1..Len(kept) |->
            IF kept[i].name \in Names(user) THEN UserEntry(user, kept[i].name)
            ELSE kept[i]]
        \o SelectSeq(user, LAMBDA it : it.name \notin Names(BuiltinDefaults))

CustomCount == IF args.custom_hooks.given THEN Len(args.custom_hooks.items) ELSE 0

\* C4: a built-in default mapped to None is not registered, a non-None
\* entry replaces the default of its name or adds a hook, and every default
\* the mapping does not mention is registered exactly once: the hooks that
\* register_default_hooks registers are exactly the expected ones, once
\* each.
C4_DefaultsMerged ==
    pc = "ready" =>
        LET e == ExpectedDefaults(args.default_hooks.items)
        IN  /\ Len(reg_log) = Len(e) + CustomCount + regs
            /\ \A i \in 1..Len(e) : objs[reg_log[i]].type = e[i].hook.type

\* A mapping that removes a default and adds a hook under a new name.
C4_Witness ==
    /\ pc = "ready" /\ args.default_hooks.given
    /\ \E i, j \in 1..Len(args.default_hooks.items) :
          /\ args.default_hooks.items[i].hook.kind = None
          /\ args.default_hooks.items[j].name = "extra"
    /\ Len(_hooks) = Len(BuiltinDefaults) + CustomCount + regs

(***************************************************************************)
(* Construction: any combination of the triads, of param_scheduler,        *)
(* compile and experiment_name; then the loop properties are read.         *)
(***************************************************************************)
Opt == {None, "cfg"}
LoopArg == {None, "cfg", "loop"}
ConstructArgs ==
    {[DefaultArgs EXCEPT
        !.train_dataloader = t[1], !.train_cfg = t[2], !.optim_wrapper = t[3],
        !.val_dataloader = v[1], !.val_cfg = v[2], !.val_evaluator = v[3],
        !.test_dataloader = w[1], !.test_cfg = w[2], !.test_evaluator = w[3],
        !.param_scheduler = ps, !.compile = c, !.experiment_name = n] :
        t \in Opt \X LoopArg \X Opt, v \in Opt \X LoopArg \X Opt,
        w \in Opt \X Opt \X Opt,
        ps \in {None, "cfg", "bad_type", "no_type"},
        c \in {"bool", "bad"}, n \in {None, "exp"}}

NextInit ==
    \/ \E a \in ConstructArgs : Construct(a)
    \/ GetTrainLoop
    \/ GetValLoop
    \/ GetTestLoop

SpecInit == Init /\ [][NextInit]_vars

PartialTriad(a) ==
    \/ ~(\A x \in {a.train_dataloader, a.train_cfg, a.optim_wrapper} : x = None)
       /\ ~(\A x \in {a.train_dataloader, a.train_cfg, a.optim_wrapper} : x # None)
    \/ ~(\A x \in {a.val_dataloader, a.val_cfg, a.val_evaluator} : x = None)
       /\ ~(\A x \in {a.val_dataloader, a.val_cfg, a.val_evaluator} : x # None)
    \/ ~(\A x \in {a.test_dataloader, a.test_cfg, a.test_evaluator} : x = None)
       /\ ~(\A x \in {a.test_dataloader, a.test_cfg, a.test_evaluator} : x # None)
TriadErrors == {"train_triad", "val_triad", "test_triad"}

\* C5 as stated: construction fails with a value-kind error whenever a
\* triad is partially specified, and raises no triad error otherwise.
C5_PartialTriadValueError ==
    op = "__init__" =>
        /\ PartialTriad(args) => (pc = "failed" /\ err.kind = "ValueError")
        /\ ~PartialTriad(args) => err.at \notin TriadErrors

\* C5 amended: construction fails whenever a triad is partially specified;
\* the error is value-kind, except that a malformed param_scheduler given
\* with a consistent train triad is rejected first, by
\* _check_scheduler_cfg, with a type-kind or assertion error; no triad
\* error is raised when the three triads are all-or-none.
C5_PartialTriadFails ==
    op = "__init__" =>
        /\ PartialTriad(args) =>
              /\ pc = "failed"
              /\ \/ err.kind = "ValueError"
                 \/ /\ err.at = "_check_scheduler_cfg"
                    /\ err.kind \in {"TypeError", "AssertionError"}
                    /\ args.param_scheduler \in {"bad_type", "no_type"}
                    /\ args.train_dataloader # None /\ args.train_cfg # None
                    /\ args.optim_wrapper # None
              /\ args.param_scheduler \in {None, "cfg"} => err.kind = "ValueError"
        /\ ~PartialTriad(args) => err.at \notin TriadErrors

\* The test triad alone is partial and its value-kind error is raised.
C5_Witness ==
    /\ op = "__init__" /\ pc = "failed"
    /\ err = Error("ValueError", "test_triad")
    /\ args.test_cfg # None /\ args.test_evaluator = None
    /\ args.val_cfg # None /\ args.train_cfg # None

TrainLoaderOnly(a) ==
    a.train_dataloader # None /\ a.optim_wrapper = None /\ a.train_cfg = None

ReadEffect(s, t) ==
    /\ s.tag = None => (t = s /\ ret' = LoopNone /\ loops_built' = loops_built)
    /\ s.tag = "loop" => (t = s /\ ret' = s /\ loops_built' = loops_built)
    /\ s.tag = "cfg" => /\ t = Loop(loops_built + 1) /\ ret' = t
                        /\ loops_built' = loops_built + 1

\* C7: the constructor stores the loop configs and builds no loop; the
\* first read of train_loop, val_loop or test_loop builds the loop and
\* stores it; a later read returns the stored loop and builds nothing; a
\* slot that is None stays None; a read leaves the other slots alone.
C7_LazyLoops ==
    [][ /\ (op' = "__init__" /\ pc' = "ready") =>
              /\ loops_built' = 0
              /\ _train_loop' = LoopSlot(args'.train_cfg)
              /\ _val_loop' = LoopSlot(args'.val_cfg)
              /\ _test_loop' = LoopSlot(args'.test_cfg)
        /\ op' = "train_loop" =>
              /\ ReadEffect(_train_loop, _train_loop')
              /\ UNCHANGED <<_val_loop, _test_loop>>
        /\ op' = "val_loop" =>
              /\ ReadEffect(_val_loop, _val_loop')
              /\ UNCHANGED <<_train_loop, _test_loop>>
        /\ op' = "test_loop" =>
              /\ ReadEffect(_test_loop, _test_loop')
              /\ UNCHANGED <<_train_loop, _val_loop>>
      ]_vars

\* train_loop is read again after it was built first and the two other
\* loops after it: the read returns the first loop.
C7_Witness ==
    /\ op = "train_loop" /\ loops_built = 3
    /\ _train_loop = Loop(1) /\ ret = Loop(1)

(***************************************************************************)
(* Checkpoints: a runner trains, saves, loads and resumes; the process     *)
(* ends and a new runner is constructed over the same work directory.      *)
(***************************************************************************)
ResumeArgs ==
    {[DefaultArgs EXCEPT !.load_from = lf, !.resume = r, !.seed = sd] :
        lf \in {None, "f1"}, r \in BOOLEAN, sd \in {None, "s7"}}
ResumeMetaArgs == {MetaNone, MetaBad, MetaDict("g2")}
Files == {"f1"}

NextResume ==
    \/ \E a \in ResumeArgs : Construct(a)
    \/ GetTrainLoop
    \/ TrainIter
    \/ TrainEpoch
    \/ \E f \in Files, m \in ResumeMetaArgs, b \in BOOLEAN : SaveCheckpoint(f, m, b)
    \/ LoadOrResume
    \/ \E f \in Files : Resume(f)
    \/ \E f \in Files : LoadCheckpoint(f)
    \/ Exit

SpecResume == Init /\ [][NextResume]_vars

\* What a step of load_or_resume does, by (resume, load_from).
NothingLoaded ==
    /\ resumed' = None /\ last_read' = None
    /\ UNCHANGED <<_has_loaded, _epoch, _iter, message_hub>>
ResumesFrom(f) ==
    /\ resumed' = f
    /\ Exists(disk, f) =>
          /\ last_read' = f
          /\ _epoch' = disk[f].epoch /\ _iter' = disk[f].iter
DecisionTable ==
    /\ (~args.resume /\ args.load_from = None) => NothingLoaded
    /\ (args.resume /\ args.load_from = None) =>
          IF DOMAIN disk = {} THEN NothingLoaded
          ELSE ResumesFrom(find_latest_checkpoint(disk))
    /\ (args.resume /\ args.load_from # None) => ResumesFrom(args.load_from)
    /\ (~args.resume /\ args.load_from # None) =>
          /\ resumed' = None
          /\ Exists(disk, args.load_from) => last_read' = args.load_from
          /\ UNCHANGED <<_epoch, _iter, message_hub>>

\* C8 as stated: every load_or_resume decides by (resume, load_from):
\* nothing is loaded with neither; with resume alone it resumes from the
\* latest checkpoint of work_dir and does nothing when there is none; with
\* both it resumes from load_from; with load_from alone it only loads the
\* checkpoint and leaves the loop counters and the message hub unchanged.
C8_DecisionEveryCall ==
    [][op' = "load_or_resume" => DecisionTable]_vars

\* C8 amended: a load_or_resume of a runner that has not yet loaded or
\* resumed decides by (resume, load_from) as stated; a load_or_resume of
\* a runner that already has does nothing.
C8_DecisionFirstCall ==
    [][op' = "load_or_resume" =>
          IF _has_loaded THEN NothingLoaded ELSE DecisionTable]_vars

\* An auto-resume found the checkpoint of the work directory and set the
\* counters from it.
C8_Witness ==
    /\ op = "load_or_resume" /\ args.resume /\ args.load_from = None
    /\ resumed = "f1" /\ last_read = "f1" /\ _has_loaded
    /\ _iter = disk["f1"].iter /\ _iter > 0

AfterResume ==
    /\ op \in {"resume", "load_or_resume"}
    /\ resumed # None /\ last_read = resumed
ResumedCkpt == disk[resumed]

\* C9 as stated: resuming from a checkpoint saved while the counters read
\* epoch=e, iter=i sets the counters to exactly e and i.
C9_CountersAsRead ==
    AfterResume =>
        /\ _epoch = ResumedCkpt.at_epoch
        /\ _iter = ResumedCkpt.at_iter

\* C9 amended: resuming from a checkpoint saved while the counters read
\* epoch=e, iter=i sets the counters to the values save_checkpoint
\* recorded: e+1 and i when it was saved with by_epoch=True, e and i+1
\* when it was saved with by_epoch=False; this holds also when resume
\* raises after it has read the checkpoint.
C9_CountersAsRecorded ==
    AfterResume =>
        /\ _epoch = ResumedCkpt.at_epoch + (IF ResumedCkpt.by_epoch THEN 1 ELSE 0)
        /\ _iter = ResumedCkpt.at_iter + (IF ResumedCkpt.by_epoch THEN 0 ELSE 1)
        /\ _epoch = ResumedCkpt.epoch /\ _iter = ResumedCkpt.iter

\* A resume ran to its end from a checkpoint saved with by_epoch=True at
\* epoch 1, iter 1.
C9_Witness ==
    /\ AfterResume /\ err = NoErr
    /\ ResumedCkpt.at_epoch = 1 /\ ResumedCkpt.at_iter = 1
    /\ ResumedCkpt.by_epoch /\ _epoch = 2 /\ _iter = 1

(***************************************************************************)
(* Resuming in another environment: the checkpoint was written with a     *)
(* 'config' entry in meta, by a runner that may differ from the resuming   *)
(* one in world size, seed and automatic learning rate scaling.            *)
(***************************************************************************)
MismatchArgs ==
    {[DefaultArgs EXCEPT
        !.load_from = "f1", !.resume = TRUE, !.auto_scale_lr = lr,
        !.seed = sd, !.world_size = ws, !.dataset_meta = dm] :
        lr \in {None, "disabled", "enabled"}, sd \in {None, "s7"}, ws \in {1, 2},
        dm \in {"A", "B"}}
MismatchMetaArgs == {MetaNone} \cup {MetaDict(c) : c \in {"g0", "g1", "g2"}}

NextMismatch ==
    \/ \E a \in MismatchArgs : Construct(a)
    \/ TrainIter
    \/ \E f \in Files, m \in MismatchMetaArgs, b \in BOOLEAN : SaveCheckpoint(f, m, b)
    \/ LoadOrResume
    \/ Exit

SpecMismatch == Init /\ [][NextMismatch]_vars

\* The resumed checkpoint records a world size other than the current one.
WorldSizeMismatch ==
    /\ AfterResume
    /\ ResumedCkpt.config # None
    /\ GpuCount[ResumedCkpt.config] > 0
    /\ GpuCount[ResumedCkpt.config] # args.world_size

\* C10 as stated: on resume a world size mismatch is only logged and the
\* resume goes on, unless automatic learning rate scaling is enabled.
C10_MismatchOnlyWarns ==
    (WorldSizeMismatch /\ args.auto_scale_lr # "enabled") =>
        /\ "gpu_mismatch" \in logs
        /\ err.at # "auto_scale_lr"

\* A resume across a world size mismatch with automatic learning rate
\* scaling enabled.
C10_Witness ==
    /\ WorldSizeMismatch /\ args.auto_scale_lr = "enabled"
    /\ "gpu_mismatch" \in logs
    /\ err = Error("AttributeError", "auto_scale_lr")

DatasetMetaMismatch ==
    AfterResume /\ ResumedCkpt.dataset_meta # args.dataset_meta

\* C11 as stated: on resume a world size mismatch and a dataset metadata
\* mismatch are logged and the resume goes on, except that a world size
\* mismatch with automatic learning rate scaling absent or disabled aborts
\* the resume with an error.
C11_OneFatalMismatch ==
    /\ (WorldSizeMismatch /\ args.auto_scale_lr \in {None, "disabled"}) =>
          err.kind # None
    /\ (WorldSizeMismatch /\ args.auto_scale_lr = "enabled") =>
          ("gpu_mismatch" \in logs /\ err.at # "auto_scale_lr")
    /\ (DatasetMetaMismatch /\ err = NoErr) => "dataset_meta_differs" \in logs

\* A resume over a dataset metadata mismatch that logs it and runs to its
\* end.
C11_Witness ==
    /\ DatasetMetaMismatch /\ err = NoErr
    /\ "dataset_meta_differs" \in logs /\ "resumed" \in logs
    /\ message_hub = ResumedCkpt.message_hub

(***************************************************************************)
(* Launching: a runner over a work directory that may hold a checkpoint    *)
(* calls train(), val() and test() in any order; strategy.prepare, a hook  *)
(* callback or the loop may raise.                                         *)
(***************************************************************************)
RunArgs ==
    {[DefaultArgs EXCEPT !.model = m,
                         !.train_dataloader = t, !.train_cfg = t, !.optim_wrapper = t,
                         !.val_dataloader = v, !.val_cfg = v, !.val_evaluator = v,
                         !.test_dataloader = w, !.test_cfg = w, !.test_evaluator = w,
                         !.default_hooks = KeepTwoDefaults,
                         !.load_from = lr[1], !.resume = lr[2]] :
        m \in {"module", "cfg"}, t \in Opt, v \in Opt, w \in Opt,
        lr \in {<<None, FALSE>>, <<None, TRUE>>, <<"f1", FALSE>>, <<"f1", TRUE>>}}

NextRun ==
    \/ \E a \in RunArgs : Construct(a)
    \/ \E fail \in Fails, k \in 0..2, raised \in Raised : Train(fail, k, raised)
    \/ \E fail \in Fails, k \in 0..2, raised \in Raised : Val(fail, k, raised)
    \/ \E fail \in Fails, k \in 0..2, raised \in Raised : Test(fail, k, raised)
    \/ \E f \in Files : SaveCheckpoint(f, MetaNone, TRUE)
    \/ Exit

SpecRun == Init /\ [][NextRun]_vars

Launches == {"train", "val", "test"}

\* The steps the three methods have in common, in the order of the claim.
CanonicalSteps ==
    <<"check_cfg", "build_loop", "load_or_resume", "prepare", "before_run",
      "run", "after_run">>

\* train() also builds the val loop when one is configured.
ClaimedSteps == SelectSeq(steps, LAMBDA x : x # "build_val_loop")

IsPrefix(s, t) == Len(s) <= Len(t) /\ SubSeq(t, 1, Len(s)) = s

StepDone(x) == \E i \in 1..Len(steps) : steps[i] = x

\* C12: every call of train(), val() or test() performs its steps once and
\* in the order check the loop config, build the loop, load_or_resume,
\* strategy.prepare, before_run hooks, loop.run(), after_run hooks: a call
\* that raises stops where it raised, a call that returns has performed all
\* of them; loop.run() starts only after prepare and the before_run hooks,
\* after_run hooks are called only after loop.run().
C12_StepsInOrder ==
    op \in Launches =>
       /\ IsPrefix(ClaimedSteps, CanonicalSteps)
       /\ err = NoErr => ClaimedSteps = CanonicalSteps
       /\ StepDone("run") => (StepDone("prepare") /\ StepDone("before_run")
                              /\ prepares >= 1)
       /\ (StepDone("run") /\ op = "train") => started

\* A train() call with a val loop configured that went through every step
\* and returned.
C12_Witness ==
    /\ op = "train" /\ err = NoErr
    /\ steps = <<"check_cfg", "build_loop", "build_val_loop", "load_or_resume",
                 "prepare", "before_run", "run", "after_run">>
    /\ last_call.fn = "after_run" /\ Len(called) = 2
    /\ _iter = MaxIter

\* C13 as stated: once strategy.prepare has been invoked and training has
\* started with the strategy, no later train(), val() or test() call on the
\* runner invokes prepare again.
C13_PrepareOnce ==
    [][(started /\ prepares >= 1) => prepares' <= prepares]_vars

\* A runner whose train() has prepared the strategy once and run the loop.
C13_Witness ==
    /\ op = "train" /\ started /\ prepares = 1 /\ StepDone("after_run")

(***************************************************************************)
(* The order of construction, over the constructor arguments of SpecInit.  *)
(***************************************************************************)
Pos(x) ==
    IF \E i \in 1..Len(events) : events[i] = x
    THEN CHOOSE i \in 1..Len(events) : events[i] = x
    ELSE 0

Count(x) == Cardinality({i \in 1..Len(events) : events[i] = x})

\* y has not happened unless x happened before it.
Before(x, y) == Pos(y) > 0 => (Pos(x) > 0 /\ Pos(x) < Pos(y))

Collaborators ==
    <<"build_strategy", "setup_env", "build_message_hub", "build_visualizer",
      "register_hooks">>

\* C14: __init__ builds the strategy and sets up its environment, then
\* builds the message hub, then the visualizer, then registers the hooks,
\* each once; no hook is in the queue unless the strategy, the message hub
\* and the visualizer were built before the hooks were registered.
C14_ConstructionOrder ==
    /\ \A i \in 1..Len(Collaborators) : Count(Collaborators[i]) <= 1
    /\ \A i \in 1..(Len(Collaborators) - 1) :
          Before(Collaborators[i], Collaborators[i + 1])
    /\ (_hooks # <<>> \/ reg_log # <<>>) =>
          /\ Pos("register_hooks") > 0
          /\ \A i \in 1..(Len(Collaborators) - 1) :
                Pos(Collaborators[i]) \in 1..(Pos("register_hooks") - 1)

\* A constructed runner with its default hooks in the queue.
C14_Witness ==
    /\ pc = "ready" /\ op = "__init__" /\ err = NoErr
    /\ Len(_hooks) > 0
    /\ Pos("build_strategy") > 0 /\ Pos("build_visualizer") < Pos("register_hooks")

(***************************************************************************)
(* setup_env on every rank, the ranks running at their own pace.           *)
(***************************************************************************)
NextDist ==
    \/ Tick
    \/ \E r \in Ranks : ReadClock(r)
    \/ \E r \in Ranks : EnterBroadcast(r)
    \/ \E r \in Ranks : LeaveBroadcast(r)
    \/ \E r \in Ranks : SetTimestamp(r)

SpecDist == Init /\ [][NextDist]_vars

AllRanksDone == \A r \in Ranks : rank_pc[r] = "done"

\* C15: once setup_env has set the timestamp on every rank, every rank
\* holds the formatted time that rank 0 read from its clock, in whatever
\* order the ranks read their clocks and entered the broadcast.
C15_SameTimestamp ==
    AllRanksDone => \A r \in Ranks : _timestamp[r] = strftime(clock_read[0])

\* All ranks are done, and a rank that read its clock a second or more
\* away from rank 0's reading, one earlier and one later, holds rank 0's.
C15_Witness ==
    /\ AllRanksDone
    /\ \E r \in Ranks : strftime(clock_read[r]) < strftime(clock_read[0])
    /\ \E r \in Ranks : strftime(clock_read[r]) > strftime(clock_read[0])
    /\ \A r \in Ranks : _timestamp[r] = strftime(clock_read[0])

(***************************************************************************)
(* Building parameter schedulers: one optimizer or an OptimWrapperDict of  *)
(* one or two, a list of schedulers or a mapping of lists by name, with    *)
(* and without max_epochs and max_iters.                                   *)
(***************************************************************************)
SchedulerInputs ==
    {SchedulerCfg(b, e) : b \in {None, "True", "False"}, e \in {NoValue, 1}}
    \cup {SchedulerObj, SchedulerBad}

SchedulerLists ==
    UNION {[1..n -> SchedulerInputs] : n \in 1..MaxSchedulers}

OptimWrappers ==
    {OptimWrapper, OptimWrapperDict(<<"gen">>), OptimWrapperDict(<<"gen", "disc">>)}

KeyLists ==
    {<<"gen">>, <<"disc">>, <<"gen", "disc">>, <<"gen", "extra">>,
     <<"gen", "disc", "extra">>}

SchedulerMappings ==
    {SchedulerMapping([i \in 1..Len(ks) |->
                          [key |-> ks[i], value |-> <<s>>]]) :
        ks \in KeyLists, s \in SchedulerInputs}

DefaultArgsInputs ==
    [max_epochs : {NoValue, 2}, max_iters : {NoValue, 5}]

NextSched ==
    \/ \E ow \in OptimWrappers, l \in SchedulerLists, da \in DefaultArgsInputs :
          BuildParamScheduler(ow, SchedulerList(l), da)
    \/ \E ow \in OptimWrappers \ {OptimWrapper}, m \in SchedulerMappings,
          da \in DefaultArgsInputs :
          BuildParamScheduler(ow, m, da)

SpecSched == Init /\ [][NextSched]_vars

\* The optimizers of the last build, a single optimizer under the name None.
Optimizers ==
    IF build_in.optim_wrapper.is_dict THEN build_in.optim_wrapper.keys ELSE <<None>>

KeyGiven(name) ==
    ~build_in.scheduler.is_mapping \/ HasKey(build_in.scheduler.by_name, name)

\* The schedulers asked for the optimizer `name`.
Asked(name) ==
    IF build_in.scheduler.is_mapping THEN Lookup(build_in.scheduler.by_name, name)
    ELSE build_in.scheduler.seq_of

\* The maximum the mode of the scheduler config c needs, as supplied.
Required(c) ==
    IF c.by_epoch = "False" THEN build_in.default_args.max_iters
    ELSE build_in.default_args.max_epochs

NeedsDefault(c) == c.kind = "cfg" /\ c.end = NoValue

\* Nothing but a missing maximum can make the build fail.
WellFormed ==
    /\ Len(Optimizers) > 0
    /\ \A i \in 1..Len(Optimizers) :
          /\ KeyGiven(Optimizers[i])
          /\ \A j \in 1..Len(Asked(Optimizers[i])) :
                Asked(Optimizers[i])[j].kind \in {"cfg", "obj"}

Built ==
    build_in # NoBuild

\* C16 as stated: a scheduler config without `end` is built with
\* end = max_epochs when by_epoch is absent or True and with end = max_iters
\* when by_epoch is False; the build raises a value-kind error when a
\* config lacks the maximum its mode needs.
C16_DefaultEnd ==
    (Built /\ WellFormed) =>
       /\ (\A i \in 1..Len(Optimizers) : \A j \in 1..Len(Asked(Optimizers[i])) :
              Asked(Optimizers[i])[j].kind = "cfg" =>
                 Required(Asked(Optimizers[i])[j]) # NoValue)
          => /\ param_schedulers.err = NoErr
             /\ \A i \in 1..Len(Optimizers) : \A j \in 1..Len(Asked(Optimizers[i])) :
                   NeedsDefault(Asked(Optimizers[i])[j]) =>
                      param_schedulers.out[i].value[j].end
                          = Required(Asked(Optimizers[i])[j])
       /\ (\E i \in 1..Len(Optimizers) : \E j \in 1..Len(Asked(Optimizers[i])) :
              /\ NeedsDefault(Asked(Optimizers[i])[j])
              /\ Required(Asked(Optimizers[i])[j]) = NoValue)
          => param_schedulers.err.kind = "ValueError"

\* One optimizer, a by-epoch and a by-iteration config without `end`, both
\* maxima supplied: the schedulers are built with end = max_epochs and
\* end = max_iters.
C16_Witness ==
    /\ Built /\ ~build_in.optim_wrapper.is_dict
    /\ build_in.scheduler.seq_of
          = <<SchedulerCfg(None, NoValue), SchedulerCfg("False", NoValue)>>
    /\ build_in.default_args = [max_epochs |-> 2, max_iters |-> 5]
    /\ param_schedulers.err = NoErr
    /\ param_schedulers.out[1].value[1].end = 2
    /\ param_schedulers.out[1].value[2].end = 5

KeysOf(items) == {items[i].key : i \in 1..Len(items)}
NamesOf(names) == {names[i] : i \in 1..Len(names)}

Misaligned ==
    /\ Built /\ build_in.optim_wrapper.is_dict /\ build_in.scheduler.is_mapping
    /\ KeysOf(build_in.scheduler.by_name) # NamesOf(build_in.optim_wrapper.keys)

\* C17 as stated: with an OptimWrapperDict and a scheduler mapping by
\* optimizer name, the build raises a value-kind error whenever the keys of
\* the mapping are not the names of the optimizers.
C17_MisalignedKeysValueError ==
    Misaligned => param_schedulers.err.kind = "ValueError"

\* A mapping that lacks the schedulers of an optimizer: the build raises,
\* with the error of the lookup.
C17_Witness ==
    /\ Misaligned
    /\ \E i \in 1..Len(build_in.optim_wrapper.keys) :
          ~HasKey(build_in.scheduler.by_name, build_in.optim_wrapper.keys[i])
    /\ param_schedulers.err.kind = "KeyError"

(***************************************************************************)
(* The state of a prepared strategy: training steps, state_dict with any   *)
(* flags, and loading what state_dict returned.                            *)
(***************************************************************************)
Scheduler(id) == [id |-> id, step |-> 0]

SchedulerSets ==
    {<<"absent", <<>> >>,
     <<"list", <<[key |-> None, value |-> <<Scheduler(1)>>]>> >>,
     <<"list", <<[key |-> None, value |-> <<Scheduler(1), Scheduler(2)>>]>> >>,
     <<"dict", <<[key |-> "gen", value |-> <<Scheduler(1)>>],
                 [key |-> "disc", value |-> <<Scheduler(2)>>]>> >>}

NextState ==
    \/ \E o \in BOOLEAN, ps \in SchedulerSets :
          (ps[1] # "absent" => o) /\ PrepareStrategy(o, ps[1], ps[2])
    \/ Step
    \/ \E so \in BOOLEAN, sp \in BOOLEAN : StateDict(so, sp)
    \/ LoadStateDict
    \/ LoadSchedulerStateDict

SpecState == Init /\ [][NextState]_vars

\* C18: the dict state_dict returns always has the key 'state_dict'; it
\* has 'optimizer' exactly when save_optimizer is true and the strategy has
\* an optimizer wrapper, and 'param_schedulers' exactly when
\* save_param_scheduler is true and the strategy has parameter schedulers,
\* so that each flag decides its own section only; the sections hold the
\* state of the components.
C18_StateDictKeys ==
    strat_op = "state_dict" =>
       /\ "state_dict" \in saved_state.keys
       /\ saved_state.state_dict = strategy_state.model
       /\ "optimizer" \in saved_state.keys
             <=> (saved_state.save_optimizer /\ strategy_state.has_optim)
       /\ "param_schedulers" \in saved_state.keys
             <=> (saved_state.save_param_scheduler
                  /\ strategy_state.sched # "absent")
       /\ "optimizer" \in saved_state.keys =>
             saved_state.optimizer = strategy_state.optimizer
       /\ "param_schedulers" \in saved_state.keys =>
             saved_state.param_schedulers = scheduler_state_dict(strategy_state)

\* state_dict(save_optimizer=False, save_param_scheduler=True) on a
\* strategy with an optimizer and schedulers that have stepped: the
\* schedulers are in the dict, the optimizer is not.
C18_Witness ==
    /\ strat_op = "state_dict"
    /\ strategy_state.has_optim /\ strategy_state.sched = "dict"
    /\ strategy_state.model > 0
    /\ ~saved_state.save_optimizer /\ saved_state.save_param_scheduler
    /\ saved_state.keys = {"state_dict", "param_schedulers"}

\* C19 as stated: load_state_dict on what state_dict() returned completes
\* and sets the weights, the optimizer state and the state of every
\* scheduler to what the dict holds; a component whose section is not in
\* the dict is left as it was.
C19_RoundTrip ==
    strat_op = "load_state_dict" =>
       /\ strat_err = NoErr
       /\ strategy_state.model = saved_state.state_dict
       /\ IF "optimizer" \in saved_state.keys
          THEN strategy_state.optimizer = saved_state.optimizer
          ELSE strategy_state.optimizer = pre_load.optimizer
       /\ IF "param_schedulers" \in saved_state.keys
          THEN scheduler_state_dict(strategy_state) = saved_state.param_schedulers
          ELSE strategy_state.param_schedulers = pre_load.param_schedulers

\* A load of a dict without the scheduler section, taken before the last
\* training steps: weights and optimizer go back, the schedulers stay.
C19_Witness ==
    /\ strat_op = "load_state_dict" /\ strat_err = NoErr
    /\ saved_state.keys = {"state_dict", "optimizer"}
    /\ pre_load.model > saved_state.state_dict
    /\ strategy_state.model = saved_state.state_dict
    /\ strategy_state.optimizer = saved_state.optimizer
    /\ strategy_state.sched # "absent"
    /\ strategy_state.param_schedulers = pre_load.param_schedulers
    /\ scheduler_state_dict(strategy_state) # scheduler_state_dict(Unprepared)

(***************************************************************************)
(* Checkpoint callbacks: runners with user hooks that write into the       *)
(* checkpoint, a strategy that trains, and checkpoints saved and loaded    *)
(* through the runner and on the strategy itself.                          *)
(***************************************************************************)
CkptArgs == {[DefaultArgs EXCEPT !.default_hooks = KeepTwoDefaults]}
CkptHooks == {HookDict("CustomHook", None), HookDict("CustomHook", "i20")}
CkptFiles == {"f1"}

NextCkpt ==
    \/ \E a \in CkptArgs : Construct(a)
    \/ \E h \in CkptHooks : regs < MaxRegs /\ RegisterHook(h, None)
    \/ PrepareStrategy(TRUE, "list", <<[key |-> "", value |-> <<Scheduler(1)>>]>>)
    \/ Step
    \/ TrainIter
    \/ GetTrainLoop
    \/ \E f \in CkptFiles : SaveCheckpoint(f, MetaNone, FALSE)
    \/ \E f \in CkptFiles : LoadCheckpoint(f)
    \/ \E f \in CkptFiles : Resume(f)
    \/ \E f \in CkptFiles, so \in BOOLEAN : StrategySaveCheckpoint(f, so, TRUE)
    \/ \E f \in CkptFiles : StrategyLoadCheckpoint(f)

SpecCkpt == Init /\ [][NextCkpt]_vars

\* The marks the hooks of the queue hs that write into a checkpoint leave
\* when each is called once, in queue order, at the given stage.
MarksOf(hs, ob, stage) ==
    LET m == SelectSeq(hs, LAMBDA h : Mutates(ob[h].type))
    IN  [i \in 1..Len(m) |-> [stage |-> stage, hook |-> m[i]]]

\* The file the step wrote, as a set: empty when it wrote none.
Written == {f \in DOMAIN disk' : ~Exists(disk, f)}

\* A successful runner.save_checkpoint.
RunnerSaved == op' = "save_checkpoint" /\ err' = NoErr /\ Written # {}

\* A successful runner.load_checkpoint, directly or from resume.
RunnerLoaded == op' \in {"load_checkpoint", "resume"} /\ last_read' # None

\* What a step that saves or loads a checkpoint does, by the kind of step.
CheckpointStep ==
    /\ RunnerSaved =>
        /\ \A f \in Written :
              /\ disk'[f].state = state_dict(strategy_state, TRUE, TRUE)
              /\ disk'[f].message_hub = message_hub
              /\ disk'[f].dataset_meta = args.dataset_meta
              /\ disk'[f].at_iter = _iter
              /\ disk'[f].marks = MarksOf(_hooks, objs, "before_save_checkpoint")
        /\ called' = Candidates(_hooks, objs, "before_save_checkpoint")
        /\ \A i, j \in 1..Len(called') : called'[i] = called'[j] => i = j
        /\ last_call'.fn = "before_save_checkpoint"
    /\ RunnerLoaded =>
        /\ disk' = disk
        /\ returned' = [disk[last_read'] EXCEPT !.marks =
                           @ \o MarksOf(_hooks, objs, "after_load_checkpoint")]
        /\ called' = Candidates(_hooks, objs, "after_load_checkpoint")
        /\ \A i, j \in 1..Len(called') : called'[i] = called'[j] => i = j
        /\ last_call'.fn = "after_load_checkpoint"
    /\ op' = "strategy.save_checkpoint" =>
        /\ \A f \in Written :
              \E so \in BOOLEAN :
                 disk'[f] = [NoCkpt EXCEPT !.state = state_dict(strategy_state, so, TRUE)]
        /\ called' = called /\ last_call' = last_call
    /\ (op' = "strategy.load_checkpoint" /\ last_read' # None) =>
        /\ returned' = disk[last_read'] /\ disk' = disk
        /\ called' = called /\ last_call' = last_call

\* C20: save_checkpoint writes the strategy's state dict with the caller's
\* extra data merged in and with what the callback did to it, the callback
\* being called once before the file is written; load_checkpoint returns what
\* the file holds with what the callback did to it, the callback being called
\* once after the file is read and the file left as it is; without a
\* callback the checkpoint is the one built or read.  Through the runner the
\* callbacks are one call of the before_save_checkpoint hooks per save and
\* one call of the after_load_checkpoint hooks per load, each hook once.
C20_CheckpointCallbacks == [][CheckpointStep]_vars

\* A runner with two hooks that write into checkpoints has loaded a
\* checkpoint that was saved, after training steps, by a runner with such
\* hooks: the checkpoint it got carries the marks of the save and of the load.
C20_Witness ==
    /\ op = "load_checkpoint" /\ last_read # None
    /\ returned.state.state_dict > 0
    /\ returned.message_hub > 0
    /\ \E i \in 1..Len(returned.marks) :
          returned.marks[i].stage = "before_save_checkpoint"
    /\ Cardinality({i \in 1..Len(returned.marks) :
                       returned.marks[i].stage = "after_load_checkpoint"}) >= 2

(***************************************************************************)
(* Lazy values: a configuration holds one lazy value at a time; it is      *)
(* made, extended by attribute accesses, copied, printed, called and       *)
(* built.                                                                  *)
(***************************************************************************)
\* How many attribute accesses made the value.
RECURSIVE Depth(_)
Depth(v) == IF v.cls = "LazyAttr" THEN 1 + Depth(v.source) ELSE 0

\* What a lazy operation on `v` leaves: its outcome, the value `now_held`
\* the configuration holds after it.
LazyDone(opname, v, r, now_held) ==
    /\ lazy_op' = opname /\ lazy_arg' = v /\ lazy_out' = r
    /\ lazy' = now_held
    /\ import_calls' = r.calls /\ sys_modules' = r.sys_modules
    /\ UNCHANGED <<runnerVars, distVars, stratVars, lrVars>>

\* x = LazyObject(module, imported, location)
NewLazyObject(mod, imp, loc) ==
    LET r == LazyObject(mod, imp, loc, sys_modules)
    IN  LazyDone("new", NoLazy, r, IF r.ok THEN r.value ELSE lazy)

\* x = x.nm
GetAttribute(nm) ==
    /\ lazy # NoLazy
    /\ nm \notin InstanceAttrs(lazy) => Depth(lazy) < MaxChain
    /\ LET r == attribute(lazy, nm, sys_modules)
       IN  LazyDone("getattr", lazy, r,
                    IF r.ok /\ nm # "location" THEN r.value ELSE lazy)

\* x = copy.deepcopy(x)
DeepCopy ==
    /\ lazy # NoLazy
    /\ LET r == __deepcopy__(lazy, sys_modules)
       IN  LazyDone("deepcopy", lazy, r, IF r.ok THEN r.value ELSE lazy)

\* str(x)
Str ==
    /\ lazy # NoLazy
    /\ LazyDone("str", lazy, __str__(lazy, sys_modules), lazy)

\* x(...)
Call ==
    /\ lazy # NoLazy
    /\ LazyDone("call", lazy, __call__(lazy, sys_modules), lazy)

\* x.build()
Build ==
    /\ lazy # NoLazy
    /\ LazyDone("build", lazy, build(lazy, sys_modules), lazy)

ModuleInputs ==
    {StrMod(<<"pkg">>), StrMod(<<"pkg", "sub">>), StrMod(<<"gone">>),
     StrMod(<<"boom">>), StrMod(<<"odd">>), ListMod(<<>>),
     ListMod(<< <<"pkg", "sub">> >>), ListMod(<< <<"pkg", "sub">>, <<"gone">> >>),
     BadMod}
ImportedInputs == {None, "Thing", "missing"}
LocationInputs == {NoLoc, Loc("cfg.py", 3)}
\* `from pkg import ...` and `import pkg` with and without a location, the
\* other modules with one, and an `imported` that is no str.
ObjectInputs ==
    {<<StrMod(<<"pkg">>), i, l>> : i \in ImportedInputs, l \in LocationInputs}
    \cup {<<m, None, Loc("cfg.py", 3)>> : m \in ModuleInputs}
    \cup {<<StrMod(<<"pkg">>), NotAStr, NoLoc>>}
AttrInputs == {"sub", "Leaf", "missing", "location", "source"}

NextLazy ==
    \/ \E x \in ObjectInputs : NewLazyObject(x[1], x[2], x[3])
    \/ \E nm \in AttrInputs : GetAttribute(nm)
    \/ DeepCopy
    \/ Str
    \/ Call
    \/ Build

SpecLazy == Init /\ [][NextLazy]_vars

\* What a call leaves.
CallStep ==
    lazy_op' = "call" =>
       /\ ~lazy_out'.ok /\ lazy_out'.exc = "RuntimeError"
       /\ import_calls' = 0 /\ sys_modules' = sys_modules
       /\ lazy' = lazy

\* C21: calling a LazyObject or a LazyAttr, however many attribute accesses
\* made it, raises an error; it imports nothing and leaves the value as it was.
C21_CallAlwaysFails == [][CallStep]_vars

\* A LazyAttr made by two attribute accesses on a LazyObject whose module
\* can be imported has been called.
C21_Witness ==
    /\ lazy_op = "call" /\ ~lazy_out.ok
    /\ lazy_arg.cls = "LazyAttr" /\ lazy_arg.source.cls = "LazyAttr"
    /\ build(lazy_arg, sys_modules).ok

\* The LazyObject a lazy value was made from.
RECURSIVE Root(_)
Root(v) == IF v.cls = "LazyAttr" THEN Root(v.source) ELSE v

\* C22: the deep copy of a LazyObject is a LazyObject with the same module,
\* imported name and location; the deep copy of a LazyAttr is a LazyAttr with
\* the same name, source and location; building the copy gives what building
\* the original gives.
C22_DeepCopySame ==
    lazy_op = "deepcopy" =>
       /\ lazy_out.ok
       /\ lazy.cls = lazy_arg.cls
       /\ lazy._module = lazy_arg._module
       /\ lazy._imported = lazy_arg._imported
       /\ lazy.name = lazy_arg.name
       /\ lazy.source = lazy_arg.source
       /\ lazy.location = lazy_arg.location
       /\ build(lazy, sys_modules) = build(lazy_arg, sys_modules)

\* A LazyObject with a location, and a LazyAttr without one, have been
\* copied: the copy is the value copied.
C22_Witness ==
    /\ lazy_op = "deepcopy" /\ lazy_out.ok
    /\ lazy = lazy_arg
    /\ \/ lazy_arg.cls = "LazyObject" /\ lazy_arg.location.given
       \/ lazy_arg.cls = "LazyAttr" /\ ~lazy_arg.location.given

\* The objects a build can give.
LiveObjects ==
    {ModuleObj(p) : p \in World}
    \cup UNION {{AttrObj(p, a) : a \in ModuleAttrs(p)} : p \in World}

\* What a step that is no build leaves, and what a build leaves.
ImportStep ==
    /\ lazy_op' # "build" =>
          /\ import_calls' = 0 /\ sys_modules' = sys_modules
          /\ lazy'.cls \in {None, "LazyObject", "LazyAttr"}
          /\ lazy_op' \in {"new", "getattr", "deepcopy", "call"} =>
                lazy_out'.value \notin LiveObjects
    /\ lazy_op' = "build" =>
          /\ lazy' = lazy /\ lazy'.cls \in {"LazyObject", "LazyAttr"}
          /\ sys_modules \subseteq sys_modules'
          /\ sys_modules' # sys_modules => import_calls' > 0
    /\ (lazy_op = "build" /\ lazy_op' = "build") =>
          /\ lazy_out'.ok = lazy_out.ok /\ lazy_out'.value = lazy_out.value
          /\ lazy_out'.exc = lazy_out.exc
          /\ import_calls' = import_calls

\* C23: constructions, attribute accesses, deep copies and string
\* conversions import nothing and resolve nothing; only build imports, it
\* leaves the lazy value unresolved, and a second build makes the imports
\* again and gives the result of the first.
C23_OnlyBuildImports == [][ImportStep]_vars

\* A LazyAttr was built twice in a row, importing a module each time and
\* giving a live object.
C23_Witness ==
    /\ lazy_op = "build" /\ lazy_out.ok /\ import_calls >= 1
    /\ lazy.cls = "LazyAttr" /\ lazy_arg = lazy
    /\ lazy_out.value.live = "object"
    /\ sys_modules = {<<"pkg">>, <<"pkg", "sub">>}

\* What importing the module of a LazyObject raises, None when it can be
\* imported.
Underlying(v) ==
    IF v._module.is # "str" THEN None
    ELSE LET r == import_module(v._module.paths[1], {})
         IN  IF r.ok THEN None ELSE r.exc

\* C24: a build that fails on the import of a LazyObject raises the type of
\* the underlying exception and names the module and the location; a build
\* that fails on a missing symbol or attribute raises an import-kind error
\* that carries the location the value was made at.
C24_FailureCarriesLocation ==
    (lazy_op = "build" /\ ~lazy_out.ok) =>
       /\ (lazy_arg.cls = "LazyObject" /\ Underlying(lazy_arg) # None) =>
             /\ lazy_out.exc = Underlying(lazy_arg)
             /\ lazy_out.msg_names = lazy_arg._module
             /\ lazy_out.msg_location = lazy_arg.location
       /\ (Underlying(Root(lazy_arg)) = None /\ Root(lazy_arg)._module.is = "str") =>
             /\ ImportKind(lazy_out.exc)
             /\ lazy_out.msg_location.given = Root(lazy_arg).location.given
             /\ lazy_out.msg_location.file = Root(lazy_arg).location.file

\* A failing import and a missing symbol of a LazyObject with a location,
\* and a missing attribute of a LazyAttr made from one: each raised an
\* import-kind error that carries the location.
C24_Witness ==
    /\ lazy_op = "build" /\ ~lazy_out.ok
    /\ ImportKind(lazy_out.exc)
    /\ lazy_out.msg_location.given
    /\ lazy_out.msg_location.file = Root(lazy_arg).location.file
    /\ lazy_arg.cls = "LazyAttr"

(***************************************************************************)
(* build_param_scheduler with several optimizers, and with explicit ends.  *)
(***************************************************************************)
BothMaxima ==
    /\ build_in.default_args.max_epochs # NoValue
    /\ build_in.default_args.max_iters # NoValue

\* C26: with two or more optimizers and max_epochs and max_iters supplied,
\* the build returns one list of built schedulers per optimizer name, and a
\* config without `end` gets the maximum of its mode as `end` for every
\* optimizer, the scheduler argument being shared or given by name.
C26_EveryOptimizerBuilt ==
    (Built /\ WellFormed /\ BothMaxima /\ Len(Optimizers) >= 2) =>
       /\ param_schedulers.err = NoErr
       /\ KeysOf(param_schedulers.out) = NamesOf(Optimizers)
       /\ \A i \in 1..Len(Optimizers) :
             /\ Len(param_schedulers.out[i].value) = Len(Asked(Optimizers[i]))
             /\ \A j \in 1..Len(Asked(Optimizers[i])) :
                   /\ param_schedulers.out[i].value[j].kind = "obj"
                   /\ NeedsDefault(Asked(Optimizers[i])[j]) =>
                         param_schedulers.out[i].value[j].end
                             = Required(Asked(Optimizers[i])[j])

\* Two optimizers and schedulers that are already built: the build returns
\* them under the names of the optimizers.
C26_Witness ==
    /\ Built /\ WellFormed /\ BothMaxima /\ Len(Optimizers) = 2
    /\ param_schedulers.err = NoErr
    /\ KeysOf(param_schedulers.out) = NamesOf(Optimizers)
    /\ \A i \in 1..2 : param_schedulers.out[i].value = <<SchedulerObj>>

ExplicitEnd(c) == c.kind = "cfg" /\ c.end # NoValue

StartTraining(train_cfg, param_scheduler) ==
    /\ lr_run.phase # "train" /\ Len(train_lr) < MaxRuns
    /\ LET b == build_param_scheduler(
                    OptimWrapper,
                    SchedulerList([i \in 1..Len(param_scheduler) |->
                                      SchedulerCfg(param_scheduler[i].by_epoch, NoValue)]),
                    [max_epochs |-> train_cfg.max_epochs,
                     max_iters |-> train_cfg.max_iters])
            c == construct_each(b.out[1].value, param_scheduler, init_lr)
        IN  lr_run' = [phase |-> "train", train_cfg |-> train_cfg,
                       param_scheduler |-> param_scheduler,
                       schedulers |-> c.schedulers, lr |-> c.lr,
                       log |-> <<>>, _iter |-> 0]
    /\ UNCHANGED <<runnerVars, distVars, stratVars, lazyVars, train_lr>>

\* One iteration of the training loop; the last one leaves the log of the
\* run in the message hub.
ScheduledIter ==
    /\ lr_run.phase = "train"
    /\ lr_run' = train_iter(lr_run)
    /\ train_lr' = IF lr_run'.phase = "done"
                   THEN Append(train_lr, [train_cfg |-> lr_run.train_cfg,
                                          param_scheduler |-> lr_run.param_scheduler,
                                          log |-> lr_run'.log])
                   ELSE train_lr
    /\ UNCHANGED <<runnerVars, distVars, stratVars, lazyVars>>

Half == Factor(1, 2)

TrainCfgs ==
    {EpochBased(n) : n \in 2..MaxTrainEpochs}
    \cup {IterBased(n * dataloader_len) : n \in 2..MaxTrainEpochs}

ParamSchedulerCfgs ==
    {<<ConstantLRCfg(Half, 0, e), ConstantLRCfg(Half, b, e)>> :
        e \in {None, "False"}, b \in {1, dataloader_len}}

NextLR ==
    \/ \E t \in TrainCfgs, p \in ParamSchedulerCfgs : StartTraining(t, p)
    \/ ScheduledIter

SpecLR == Init /\ [][NextLR]_vars

Repeat(x, n) == [i \in 1..n |-> x]

\* The two configurations of test_with_runner.
EpochScenario(r) ==
    /\ r.train_cfg = EpochBased(3)
    /\ r.param_scheduler = <<ConstantLRCfg(Half, 0, None), ConstantLRCfg(Half, 1, None)>>
IterScenario(r) ==
    /\ r.train_cfg = IterBased(12)
    /\ r.param_scheduler = <<ConstantLRCfg(Half, 0, "False"), ConstantLRCfg(Half, 4, "False")>>

\* C25: a training run of 3 epochs of 4 iterations with two ConstantLR
\* schedulers of factor 0.5 beginning at epochs 0 and 1 and a base rate of
\* 0.1 logs the rates [0.05]*4 + [0.025]*4 + [0.1]*4; the run of 12
\* iterations with by-iteration schedulers beginning at iterations 0 and 4
\* logs [0.05]*4 + [0.025]*7 + [0.1].
C25_LearningRateHistory ==
    \A i \in 1..Len(train_lr) :
       /\ EpochScenario(train_lr[i]) =>
             train_lr[i].log = Repeat(50, 4) \o Repeat(25, 4) \o Repeat(100, 4)
       /\ IterScenario(train_lr[i]) =>
             train_lr[i].log = Repeat(50, 4) \o Repeat(25, 7) \o <<100>>

\* Both runs of the test are finished, the epoch-based one first.
C25_Witness ==
    /\ Len(train_lr) = 2
    /\ EpochScenario(train_lr[1]) /\ Len(train_lr[1].log) = 12
    /\ IterScenario(train_lr[2]) /\ Len(train_lr[2].log) = 12

(***************************************************************************)
(* One register_hook call and the queue it leaves.                         *)
(***************************************************************************)
\* The step is a register_hook call that raised nothing.
Registers == op' = "register_hook" /\ regs' = regs + 1 /\ err' = NoErr

\* The hook object the call registered.
NewHook == reg_log'[Len(reg_log')]

\* The priority value of hook object h after the call.
PrioAfter(h) == get_priority(objs'[h].priority)

\* The new queue is the old one with the new hook put right after the
\* last entry whose priority value is not above the new hook's, at the
\* head when there is none; with it the queue is one longer and the
\* earlier entries keep their relative order.
InsertedInPlace ==
    /\ Len(_hooks') = Len(_hooks) + 1
    /\ \E k \in 0..Len(_hooks) :
          /\ \A i \in 1..k : _hooks'[i] = _hooks[i]
          /\ _hooks'[k + 1] = NewHook
          /\ \A i \in (k + 1)..Len(_hooks) : _hooks'[i + 1] = _hooks[i]
          /\ k > 0 => PrioAfter(_hooks[k]) <= PrioAfter(NewHook)
          /\ \A i \in (k + 1)..Len(_hooks) : PrioAfter(_hooks[i]) > PrioAfter(NewHook)

RegisterStepAsStated ==
    Registers =>
       /\ InsertedInPlace
       /\ \A i \in 1..Len(_hooks) :
             objs'[_hooks[i]].priority = objs[_hooks[i]].priority

RegisterStep ==
    Registers =>
       /\ InsertedInPlace
       /\ \A i \in 1..Len(_hooks) :
             _hooks[i] # NewHook =>
                objs'[_hooks[i]].priority = objs[_hooks[i]].priority

ReachesLoadOrResume ==
    /\ op' \in Launches
    /\ \E i \in 1..Len(steps') : steps'[i] = "load_or_resume"

\* The step ran the training loop.
RanTrainLoop == op' = "train" /\ \E i \in 1..Len(steps') : steps'[i] = "run"

AutoResume == args.resume /\ args.load_from = None

LoadStep ==
    ReachesLoadOrResume =>
       \* after a load or resume was started nothing is read or restored
       /\ _has_loaded =>
             /\ _has_loaded'
             /\ last_read' = None /\ resumed' = None /\ logs' = {}
             /\ returned' = NoCkpt
             /\ ~RanTrainLoop =>
                   (_epoch' = _epoch /\ _iter' = _iter /\ message_hub' = message_hub)
       \* a checkpoint is read only by the call that marks the runner
       /\ (last_read' # None \/ resumed' # None) => (~_has_loaded /\ _has_loaded')
       \* the runner is marked only by a call that starts a load or a resume
       /\ (~_has_loaded /\ _has_loaded') => (resumed' # None \/ "load" \in logs')
       \* an auto-resume that finds nothing leaves the runner unmarked
       /\ (~_has_loaded /\ AutoResume /\ find_latest_checkpoint(disk) = None) =>
             (~_has_loaded' /\ last_read' = None /\ resumed' = None)

\* C29: across train(), val() and test() calls a runner loads a checkpoint
\* at most once: once load_or_resume has started a load or a resume, every
\* later load_or_resume returns None, reads no checkpoint and leaves the
\* counters alone; an auto-resume that finds no checkpoint does not mark
\* the runner as loaded.
C29_LoadedAtMostOnce == [][LoadStep]_vars

\* A later launch of a runner that has loaded already, with the checkpoint
\* still there, has read nothing.
C29_Witness ==
    /\ op \in {"val", "test"} /\ _has_loaded /\ prepares = 2 /\ err = NoErr
    /\ args.load_from # None /\ DOMAIN disk # {} /\ last_read = None
    /\ StepDone("load_or_resume")

(***************************************************************************)
(* Failures in train(), val() and test().                                  *)
(***************************************************************************)
\* Runners with a test loop, with or without a train and a val loop,
\* without a checkpoint to load or resuming from one.
FailureArgs ==
    {[DefaultArgs EXCEPT !.train_dataloader = t, !.train_cfg = t, !.optim_wrapper = t,
                         !.val_dataloader = v, !.val_cfg = v, !.val_evaluator = v,
                         !.test_dataloader = "cfg", !.test_cfg = "cfg",
                         !.test_evaluator = "cfg",
                         !.default_hooks = KeepTwoDefaults,
                         !.load_from = lr[1], !.resume = lr[2]] :
        t \in Opt, v \in Opt, lr \in {<<None, FALSE>>, <<"f1", TRUE>>}}

NextFailure ==
    \/ \E a \in FailureArgs : Construct(a)
    \/ \E fail \in Fails, k \in 0..2, raised \in Raised : Train(fail, k, raised)
    \/ \E fail \in Fails, k \in 0..2, raised \in Raised : Val(fail, k, raised)
    \/ \E fail \in Fails, k \in 0..2, raised \in Raised : Test(fail, k, raised)
    \/ \E f \in Files : SaveCheckpoint(f, MetaNone, TRUE)

SpecFailure == Init /\ [][NextFailure]_vars

\* The step is a train(), val() or test() call in which `fail` raises
\* `raised`, in the k-th hook when it is a hook stage.
LaunchFailing(fail, k, raised) ==
    \/ Train(fail, k, raised)
    \/ Val(fail, k, raised)
    \/ Test(fail, k, raised)

Reached(step) == \E i \in 1..Len(steps') : steps'[i] = step

\* No hook stage of the run was called in the step.
NoRunHooks ==
    \/ called' = called /\ last_call' = last_call
    \/ last_call'.fn = "after_load_checkpoint"

\* The loop did not run in the step.
LoopNotRun ==
    /\ ~Reached("run")
    /\ started' = started
    /\ resumed' = None => (_iter' = _iter /\ _epoch' = _epoch)

\* What the callback raised reaches the caller: a TypeError as TypeError,
\* anything else as it is.
HookErrorOut(raised) == err' # NoErr /\ err'.kind = raised

FailureStep ==
    op' \in Launches =>
       \A raised \in Raised :
          /\ (LaunchFailing("prepare", 0, raised) /\ Reached("prepare")) =>
                /\ err' = Error(raised, "prepare")
                /\ prepares' = prepares + 1
                /\ ~Reached("before_run") /\ NoRunHooks
                /\ LoopNotRun
                /\ ~Reached("after_run")
          /\ \A k \in 1..2 :
                (LaunchFailing("before_run", k, raised) /\ Reached("before_run")) =>
                   /\ HookErrorOut(raised)
                   /\ last_call'.fn = "before_run" /\ last_call'.failing # 0
                   /\ Len(called') = k
                   /\ LoopNotRun
                   /\ ~Reached("after_run")
                   /\ prepares' = prepares + 1
          /\ (LaunchFailing("run", 0, raised) /\ Reached("run")) =>
                /\ err' = Error(raised, "run")
                /\ last_call'.fn = "before_run" /\ last_call'.failing = 0
                /\ ~Reached("after_run")
                /\ prepares' = prepares + 1

\* C30: train(), val() and test() neither retry nor mask a failure: when
\* strategy.prepare raises, the error reaches the caller, prepare is not
\* called again and neither the before_run hooks nor loop.run() are
\* executed; when a before_run hook raises, loop.run() and the after_run
\* hooks are not executed; when loop.run() raises, the after_run hooks are
\* not executed.
C30_NoRetryNoMasking == [][FailureStep]_vars

\* A val() call whose second before_run hook raised, after the first one
\* was called.
C30_Witness ==
    /\ op = "val" /\ err # NoErr
    /\ last_call.fn = "before_run" /\ last_call.failing # 0 /\ Len(called) = 2
    /\ steps = <<"check_cfg", "build_loop", "load_or_resume", "prepare", "before_run">>

====
